---- MODULE Spec2Model ----
(***************************************************************************)
(* Citation-Cross-Checker: the citation/bibliography matching engine.      *)
(* Texts and names are TLA+ strings; a character is a string of length 1.  *)
(* An object reference (a Citation held by missing_bib_entries, the two    *)
(* objects of a YearMismatch) is the index of the object in the list that  *)
(* owns it (citations, bib_entries), so identity is index equality.        *)
(***************************************************************************)
EXTENDS Naturals, Integers, Sequences, FiniteSets, TLC

VARIABLES
    text,                 \* check_document's argument `text`
    bib_section_name,     \* check_document's argument `bib_section_name`
    bib_headers,          \* BibliographyParser.bib_headers (instance state)
    history,              \* the calls of check_document made on the instance so far
    bib_text,             \* the section text BibliographyParser.parse returned
    pc,                   \* position inside check_document / the caller
    citations,            \* list of Citation records
    bib_entries,          \* list of BibEntry records
    missing_bib_entries,  \* list of references (indices) into citations
    uncited_references,   \* list of references (indices) into bib_entries
    year_mismatches,      \* list of YearMismatch: [citation, bib_entry] references
    issues,               \* what CheckResult.has_issues() returned
    verdict,              \* what the predicate under test returned
    parsed_positions,     \* CitationParser.parse's set of (start, end) of accepted matches
    files,                \* the file system: what stands at each path
    file_path             \* DocumentReader.read_file's argument `file_path`

vars == <<text, bib_section_name, bib_headers, history, bib_text, pc, citations,
          bib_entries, missing_bib_entries, uncited_references, year_mismatches,
          issues, verdict, parsed_positions, files, file_path>>

(***************************************************************************)
(* Python values                                                           *)
(***************************************************************************)
\* Optional[str] = None
None == "<None>"
\* Optional[int] = None
NoNumber == -1

\* truthiness of an Optional[str]: None and "" are falsy
Truthy(s) == s # None /\ s # ""

\* f"{x}" of an Optional[str]
Fmt(s) == IF s = None THEN "None" ELSE s

(***************************************************************************)
(* Characters and strings                                                  *)
(***************************************************************************)
Digits == "0123456789"

Char(s, i) == SubSeq(s, i, i)
CharsOf(s) == {Char(s, i) : i \in 1..Len(s)}

UPPER == CharsOf("ABCDEFGHIJKLMNOPQRSTUVWXYZ")
LOWER == CharsOf("abcdefghijklmnopqrstuvwxyz")
DIGIT == CharsOf(Digits)
\* what str.strip(), str.split() and the regex class \s take for whitespace
SPACE == {" ", "\t", "\n", "\r"}

\* ord(c): printable ASCII in code-point order is 32..95 and 97..126 (the
\* grave accent, 96, is no character of the model)
Ord(c) ==
    LET low == " !\"#$%&'()*+,-./0123456789:;<=>?@ABCDEFGHIJKLMNOPQRSTUVWXYZ[\\]^_"
        high == "abcdefghijklmnopqrstuvwxyz{|}~"
    IN  IF c = "\t" THEN 9
        ELSE IF c = "\n" THEN 10
        ELSE IF c = "\r" THEN 13
        ELSE IF \E i \in 1..Len(low) : Char(low, i) = c
             THEN 31 + (CHOOSE i \in 1..Len(low) : Char(low, i) = c)
             ELSE 96 + (CHOOSE i \in 1..Len(high) : Char(high, i) = c)

\* str.lower(); the halves keep the nesting of the evaluation shallow
RECURSIVE lower(_)
lower(s) ==
    IF Len(s) = 0 THEN ""
    ELSE IF Len(s) = 1
    THEN (IF s \in UPPER
          THEN Char("abcdefghijklmnopqrstuvwxyz",
                    CHOOSE i \in 1..26 : Char("ABCDEFGHIJKLMNOPQRSTUVWXYZ", i) = s)
          ELSE s)
    ELSE lower(SubSeq(s, 1, Len(s) \div 2)) \o lower(SubSeq(s, (Len(s) \div 2) + 1, Len(s)))

\* the least index k >= i of s whose character is (member) or is not (~member)
\* in chars; Len(s) + 1 when there is none
NextIndex(s, i, chars, member) ==
    CHOOSE k \in i..(Len(s) + 1) :
        /\ k = Len(s) + 1 \/ (Char(s, k) \in chars) = member
        /\ \A j \in i..(k - 1) : (Char(s, j) \in chars) # member

\* s.lstrip(chars), s.rstrip(chars), s.strip()
LStrip(s, chars) == SubSeq(s, NextIndex(s, 1, chars, FALSE), Len(s))
RStrip(s, chars) ==
    SubSeq(s, 1, CHOOSE k \in 0..Len(s) :
                    /\ k = 0 \/ Char(s, k) \notin chars
                    /\ \A j \in (k + 1)..Len(s) : Char(s, j) \in chars)
strip(s) == LStrip(RStrip(s, SPACE), SPACE)

\* s.startswith(p); p in s; s.find(p) + 1 (0 when absent)
StartsAt(s, i, p) == i + Len(p) - 1 <= Len(s) /\ SubSeq(s, i, i + Len(p) - 1) = p
startswith(s, p) == StartsAt(s, 1, p)
contains(s, p) == \E i \in 1..(Len(s) + 1) : StartsAt(s, i, p)
find(s, p) ==
    IF contains(s, p) THEN CHOOSE i \in 1..(Len(s) + 1) :
            StartsAt(s, i, p) /\ \A j \in 1..(i - 1) : ~StartsAt(s, j, p)
    ELSE 0

\* s.replace(old, '') for a non-empty str old
RECURSIVE Remove(_, _)
Remove(s, old) ==
    IF ~contains(s, old) THEN s
    ELSE SubSeq(s, 1, find(s, old) - 1)
         \o Remove(SubSeq(s, find(s, old) + Len(old), Len(s)), old)

\* s[a:b] for 0 <= a, b (Python slice bounds, 0-based, end exclusive)
Slice(s, a, b) == SubSeq(s, a + 1, IF b < Len(s) THEN b ELSE Len(s))

\* s.split(): the maximal runs of non-whitespace, in order
split(s) ==
    LET RECURSIVE From(_)
        From(i) ==
            LET a == NextIndex(s, i, SPACE, FALSE)
                b == NextIndex(s, a, SPACE, TRUE)
            IN  IF a > Len(s) THEN <<>> ELSE <<SubSeq(s, a, b - 1)>> \o From(b)
    IN  From(1)

\* s.split(c) for a single character c: always at least one piece
SplitChar(s, c) ==
    LET RECURSIVE From(_)
        From(i) ==
            LET b == NextIndex(s, i, {c}, TRUE)
            IN  IF b > Len(s) THEN <<SubSeq(s, i, Len(s))>>
                ELSE <<SubSeq(s, i, b - 1)>> \o From(b + 1)
    IN  From(1)

\* a < b for str (code-point lexicographic order)
StrLess(a, b) ==
    LET n == IF Len(a) < Len(b) THEN Len(a) ELSE Len(b)
        d == CHOOSE k \in 1..(n + 1) :
                /\ k = n + 1 \/ Char(a, k) # Char(b, k)
                /\ \A j \in 1..(k - 1) : Char(a, j) = Char(b, j)
    IN  IF d = n + 1 THEN Len(a) < Len(b) ELSE Ord(Char(a, d)) < Ord(Char(b, d))

\* sorted(list of str): the last element put behind those not greater than it
RECURSIVE sorted(_)
sorted(l) ==
    IF l = <<>> THEN <<>>
    ELSE LET rest == sorted(SubSeq(l, 1, Len(l) - 1))
             k == Cardinality({j \in 1..Len(rest) : ~StrLess(l[Len(l)], rest[j])})
         IN  SubSeq(rest, 1, k) \o <<l[Len(l)]>> \o SubSeq(rest, k + 1, Len(rest))

\* sep.join(list of str)
RECURSIVE join(_, _)
join(sep, l) ==
    IF l = <<>> THEN ""
    ELSE IF Len(l) = 1 THEN l[1]
    ELSE l[1] \o sep \o join(sep, Tail(l))

\* str(n) for an int n >= 0
RECURSIVE str(_)
str(n) == IF n < 10 THEN Char(Digits, n + 1) ELSE str(n \div 10) \o Char(Digits, (n % 10) + 1)

\* int(s) for a str of decimal digits
RECURSIVE int(_)
int(s) ==
    IF s = "" THEN 0
    ELSE 10 * int(SubSeq(s, 1, Len(s) - 1))
         + (CHOOSE d \in 0..9 : Char(Digits, d + 1) = Char(s, Len(s)))

(***************************************************************************)
(* re: patterns as trees, matched as Python's backtracking matcher does.   *)
(* M(r, s, i, caps) is the sequence, in the matcher's order of preference, *)
(* of the ways pattern r matches s from index i (1-based): each with the   *)
(* index after the match and the spans of the groups captured so far.      *)
(* The texts of the model are ASCII, so the ranges \u00C0-\u024F of the     *)
(* source's character classes have no member here.                         *)
(***************************************************************************)
In(chars) == [op |-> "in", chars |-> chars]
NotIn(chars) == [op |-> "notin", chars |-> chars]
Lit(s) == [op |-> "lit", str |-> s]
\* a literal under re.IGNORECASE
LitI(s) == [op |-> "liti", str |-> s]
Cat(items) == [op |-> "seq", items |-> items]
Alt(items) == [op |-> "alt", items |-> items]
\* r{min,max}; max = -1 is unbounded; greedy or lazy
Rep(r, min, max, greedy) == [op |-> "rep", r |-> r, min |-> min, max |-> max, greedy |-> greedy]
Plus(r) == Rep(r, 1, -1, TRUE)
Star(r) == Rep(r, 0, -1, TRUE)
Opt(r) == Rep(r, 0, 1, TRUE)
Group(n, r) == [op |-> "group", n |-> n, r |-> r]
\* (?=r) and (?<!r) for an r of fixed width
Ahead(r) == [op |-> "ahead", r |-> r]
NotBehind(r, width) == [op |-> "notbehind", r |-> r, width |-> width]
\* "bol" and "eol" are ^ and $ under re.MULTILINE, "bos" and "eos" are ^ and $
\* without it, "end" is \Z
Anchor(kind) == [op |-> kind]

SetCap(caps, n, st, en) ==
    [k \in (DOMAIN caps) \cup {n} |-> IF k = n THEN <<st, en>> ELSE caps[k]]
At(i, caps) == <<[pos |-> i, caps |-> caps]>>

RECURSIVE M(_, _, _, _)
M(r, s, i, caps) ==
    LET RECURSIVE SeqFrom(_, _, _)
        RECURSIVE Then(_, _, _, _)
        RECURSIVE AltFrom(_)
        RECURSIVE RepFrom(_, _, _)
        RECURSIVE Again(_, _, _, _, _)
        \* items[k], items[k+1], ... one after the other: the rest of the items
        \* after each way res[lo..hi] of matching the item before them
        SeqFrom(k, at, cp) ==
            IF k > Len(r.items) THEN At(at, cp)
            ELSE LET res == M(r.items[k], s, at, cp)
                 IN  Then(res, 1, Len(res), k + 1)
        Then(res, lo, hi, k) ==
            IF lo > hi THEN <<>>
            ELSE IF lo = hi THEN SeqFrom(k, res[lo].pos, res[lo].caps)
            ELSE Then(res, lo, (lo + hi) \div 2, k) \o Then(res, ((lo + hi) \div 2) + 1, hi, k)
        \* the alternatives from left to right
        AltFrom(k) ==
            IF k > Len(r.items) THEN <<>> ELSE M(r.items[k], s, i, caps) \o AltFrom(k + 1)
        \* a repetition that has matched count times: greedy tries one more
        \* first, lazy tries to stop first; an iteration must consume something
        RepFrom(count, at, cp) ==
            LET res == M(r.r, s, at, cp)
                more == IF r.max = -1 \/ count < r.max
                        THEN Again(res, 1, Len(res), count + 1, at) ELSE <<>>
                stop == IF count >= r.min THEN At(at, cp) ELSE <<>>
            IN  IF r.greedy THEN more \o stop ELSE stop \o more
        Again(res, lo, hi, count, at) ==
            IF lo > hi THEN <<>>
            ELSE IF lo = hi
            THEN (IF res[lo].pos > at THEN RepFrom(count, res[lo].pos, res[lo].caps) ELSE <<>>)
            ELSE Again(res, lo, (lo + hi) \div 2, count, at)
                 \o Again(res, ((lo + hi) \div 2) + 1, hi, count, at)
        \* a repetition of a one-character pattern: the run of characters it
        \* can take from i, then every allowed length, longest first when greedy
        Takes(k) == (Char(s, k) \in r.r.chars) = (r.r.op = "in")
        limit == IF r.max = -1 \/ i + r.max > Len(s) + 1 THEN Len(s) + 1 ELSE i + r.max
        stop == CHOOSE k \in i..limit :
                    /\ k = limit \/ ~Takes(k)
                    /\ \A j \in i..(k - 1) : Takes(j)
        n == (stop - (i + r.min)) + 1
        Run == IF n <= 0 THEN <<>>
               ELSE [k \in 1..n |->
                        [pos |-> IF r.greedy THEN stop - (k - 1) ELSE i + r.min + (k - 1),
                         caps |-> caps]]
    IN  CASE r.op = "in" ->
                IF i <= Len(s) /\ Char(s, i) \in r.chars THEN At(i + 1, caps) ELSE <<>>
          [] r.op = "notin" ->
                IF i <= Len(s) /\ Char(s, i) \notin r.chars THEN At(i + 1, caps) ELSE <<>>
          [] r.op = "lit" ->
                IF StartsAt(s, i, r.str) THEN At(i + Len(r.str), caps) ELSE <<>>
          [] r.op = "liti" ->
                IF /\ i + Len(r.str) - 1 <= Len(s)
                   /\ lower(SubSeq(s, i, i + Len(r.str) - 1)) = lower(r.str)
                THEN At(i + Len(r.str), caps) ELSE <<>>
          [] r.op = "seq" -> SeqFrom(1, i, caps)
          [] r.op = "alt" -> AltFrom(1)
          [] r.op = "rep" ->
                IF r.r.op \in {"in", "notin"} THEN Run ELSE RepFrom(0, i, caps)
          [] r.op = "group" ->
                LET inner == M(r.r, s, i, caps)
                IN  [k \in 1..Len(inner) |->
                        [pos |-> inner[k].pos,
                         caps |-> SetCap(inner[k].caps, r.n, i, inner[k].pos)]]
          [] r.op = "ahead" ->
                IF M(r.r, s, i, caps) # <<>> THEN At(i, caps) ELSE <<>>
          [] r.op = "notbehind" ->
                IF i - r.width >= 1 /\ M(r.r, s, i - r.width, caps) # <<>>
                THEN <<>> ELSE At(i, caps)
          [] r.op = "bol" -> IF i = 1 \/ Char(s, i - 1) = "\n" THEN At(i, caps) ELSE <<>>
          [] r.op = "bos" -> IF i = 1 THEN At(i, caps) ELSE <<>>
          [] r.op = "eol" ->
                IF i = Len(s) + 1 \/ Char(s, i) = "\n" THEN At(i, caps) ELSE <<>>
          [] r.op = "eos" ->
                IF i = Len(s) + 1 \/ (i = Len(s) /\ Char(s, i) = "\n")
                THEN At(i, caps) ELSE <<>>
          [] r.op = "end" -> IF i = Len(s) + 1 THEN At(i, caps) ELSE <<>>

\* a match object: start and end are 1-based, end exclusive; start = 0 is "no match"
NoMatch == [start |-> 0, end |-> 0, caps |-> <<>>]
IsMatch(m) == m.start # 0
MatchAt(r, s, i) ==
    LET First(res) ==
            IF res = <<>> THEN NoMatch
            ELSE [start |-> i, end |-> res[1].pos, caps |-> res[1].caps]
    IN  First(M(r, s, i, <<>>))

\* re.match(r, s)
re_match(r, s) == MatchAt(r, s, 1)

\* the leftmost match of r in s that starts in lo..hi
RECURSIVE SearchIn(_, _, _, _)
SearchIn(r, s, lo, hi) ==
    LET OrElse(left) ==
            IF IsMatch(left) THEN left ELSE SearchIn(r, s, ((lo + hi) \div 2) + 1, hi)
    IN  IF lo > hi THEN NoMatch
        ELSE IF lo = hi THEN MatchAt(r, s, lo)
        ELSE OrElse(SearchIn(r, s, lo, (lo + hi) \div 2))

\* re.search(r, s)
re_search(r, s) == SearchIn(r, s, 1, Len(s) + 1)

\* list(re.finditer(r, s)): the successive non-overlapping matches from index i on
RECURSIVE FindIterFrom(_, _, _)
FindIterFrom(r, s, i) ==
    LET After(m) ==
            IF ~IsMatch(m) THEN <<>>
            ELSE <<m>> \o FindIterFrom(r, s, IF m.end > m.start THEN m.end ELSE m.end + 1)
    IN  After(SearchIn(r, s, i, Len(s) + 1))
re_finditer(r, s) == FindIterFrom(r, s, 1)

\* match.group(n), match.group(0), and the 0-based match.start(), match.end()
group(m, s, n) ==
    IF n \in DOMAIN m.caps THEN SubSeq(s, m.caps[n][1], m.caps[n][2] - 1) ELSE None
group0(m, s) == SubSeq(s, m.start, m.end - 1)
start(m) == m.start - 1
end(m) == m.end - 1

\* re.split(r, s) for an r that has the groups 1..ngroups and matches no empty string
RECURSIVE SplitFrom(_, _, _, _)
SplitFrom(r, ngroups, s, i) ==
    LET After(m) ==
            IF ~IsMatch(m) THEN <<SubSeq(s, i, Len(s))>>
            ELSE <<SubSeq(s, i, m.start - 1)>> \o [n \in 1..ngroups |-> group(m, s, n)]
                 \o SplitFrom(r, ngroups, s, m.end)
    IN  After(SearchIn(r, s, i, Len(s) + 1))
re_split(r, ngroups, s) == SplitFrom(r, ngroups, s, 1)

\* re.sub(r, repl, s) for a literal repl and an r that matches no empty string
RECURSIVE SubFrom(_, _, _, _)
SubFrom(r, repl, s, i) ==
    LET After(m) ==
            IF ~IsMatch(m) THEN SubSeq(s, i, Len(s))
            ELSE SubSeq(s, i, m.start - 1) \o repl \o SubFrom(r, repl, s, m.end)
    IN  After(SearchIn(r, s, i, Len(s) + 1))
re_sub(r, repl, s) == SubFrom(r, repl, s, 1)

(***************************************************************************)
(* models.py: Citation, BibEntry, YearMismatch, CheckResult                *)
(***************************************************************************)
Citation(raw_text, authors, year, page, number, position, citation_type) ==
    [raw_text |-> raw_text, authors |-> authors, year |-> year, page |-> page,
     number |-> number, position |-> position, citation_type |-> citation_type]

BibEntry(raw_text, authors, year, number, position, entry_type) ==
    [raw_text |-> raw_text, authors |-> authors, year |-> year, title |-> None,
     number |-> number, position |-> position, entry_type |-> entry_type]

YearMismatch(citation, bib_entry) == [citation |-> citation, bib_entry |-> bib_entry]

\* normalize_name: the last word, lower-cased, of the name without '.' and ','
normalize_name(name) ==
    LET LastOf(n, words) == IF words # <<>> THEN lower(words[Len(words)]) ELSE lower(n)
        WordsOf(n) == LastOf(n, split(n))
    IN  WordsOf(strip(Remove(Remove(name, "."), ",")))

\* matches_bib without the substring leniency: the first authors must be equal
matches_bib_no_substring(self, bib_entry) ==
    IF self.citation_type = "numeric" \/ self.citation_type = "ieee"
    THEN self.number = bib_entry.number
    ELSE IF self.authors = <<>> \/ bib_entry.authors = <<>>
    THEN FALSE
    ELSE IF normalize_name(self.authors[1]) # normalize_name(bib_entry.authors[1])
    THEN FALSE
    ELSE IF Truthy(self.year) /\ Truthy(bib_entry.year)
         THEN self.year = bib_entry.year
         ELSE TRUE

\* Citation.matches_bib
matches_bib(self, bib_entry) ==
    IF self.citation_type = "numeric" \/ self.citation_type = "ieee"
    THEN self.number = bib_entry.number
    ELSE IF self.authors = <<>> \/ bib_entry.authors = <<>>
    THEN FALSE
    ELSE LET FirstAuthors(citation_first, bib_first) ==
                 IF /\ citation_first # bib_first
                    /\ ~contains(bib_first, citation_first)
                    /\ ~contains(citation_first, bib_first)
                 THEN FALSE
                 ELSE IF Truthy(self.year) /\ Truthy(bib_entry.year)
                      THEN self.year = bib_entry.year
                      ELSE TRUE
         IN  FirstAuthors(normalize_name(self.authors[1]), normalize_name(bib_entry.authors[1]))

\* authors_match_bib whose "et al." case takes a substring for a match
authors_match_bib_substring(self, bib_entry) ==
    IF self.citation_type = "numeric" \/ self.citation_type = "ieee"
    THEN FALSE
    ELSE IF self.authors = <<>> \/ bib_entry.authors = <<>>
    THEN FALSE
    ELSE LET Authors(citation_authors, bib_authors) ==
                 IF Len(self.authors) = 1 /\ Len(bib_entry.authors) > 1
                 THEN contains(bib_authors[1], citation_authors[1])
                 ELSE IF Len(citation_authors) # Len(bib_authors)
                      THEN FALSE
                      ELSE \A i \in 1..Len(citation_authors) :
                              \E j \in 1..Len(bib_authors) : citation_authors[i] = bib_authors[j]
         IN  Authors([i \in 1..Len(self.authors) |-> normalize_name(self.authors[i])],
                     [i \in 1..Len(bib_entry.authors) |-> normalize_name(bib_entry.authors[i])])

\* authors_match_bib whose "et al." case accepts the sole author anywhere in the entry
authors_match_bib_any_position(self, bib_entry) ==
    IF self.citation_type = "numeric" \/ self.citation_type = "ieee"
    THEN FALSE
    ELSE IF self.authors = <<>> \/ bib_entry.authors = <<>>
    THEN FALSE
    ELSE LET Authors(citation_authors, bib_authors) ==
                 IF Len(self.authors) = 1 /\ Len(bib_entry.authors) > 1
                 THEN \E j \in 1..Len(bib_authors) : citation_authors[1] = bib_authors[j]
                 ELSE IF Len(citation_authors) # Len(bib_authors)
                      THEN FALSE
                      ELSE \A i \in 1..Len(citation_authors) :
                              \E j \in 1..Len(bib_authors) : citation_authors[i] = bib_authors[j]
         IN  Authors([i \in 1..Len(self.authors) |-> normalize_name(self.authors[i])],
                     [i \in 1..Len(bib_entry.authors) |-> normalize_name(bib_entry.authors[i])])

\* Citation.authors_match_bib
authors_match_bib(self, bib_entry) ==
    IF self.citation_type = "numeric" \/ self.citation_type = "ieee"
    THEN FALSE
    ELSE IF self.authors = <<>> \/ bib_entry.authors = <<>>
    THEN FALSE
    ELSE LET Authors(citation_authors, bib_authors) ==
                 IF Len(self.authors) = 1 /\ Len(bib_entry.authors) > 1
                 THEN citation_authors[1] = bib_authors[1]
                 ELSE IF Len(citation_authors) # Len(bib_authors)
                      THEN FALSE
                      ELSE \A i \in 1..Len(citation_authors) :
                              \E j \in 1..Len(bib_authors) : citation_authors[i] = bib_authors[j]
         IN  Authors([i \in 1..Len(self.authors) |-> normalize_name(self.authors[i])],
                     [i \in 1..Len(bib_entry.authors) |-> normalize_name(bib_entry.authors[i])])

\* has_issues that forgets the uncited references
has_issues_no_uncited(missing, uncited, mismatches) ==
    missing # <<>> \/ mismatches # <<>>

\* CheckResult.has_issues
has_issues(missing, uncited, mismatches) ==
    missing # <<>> \/ uncited # <<>> \/ mismatches # <<>>

(***************************************************************************)
(* checker.py: CitationChecker                                             *)
(***************************************************************************)
\* the dedup key of _find_missing_bib_entries
citation_key(citation) ==
    IF citation.citation_type = "numeric"
    THEN "[" \o (IF citation.number = NoNumber THEN "None" ELSE str(citation.number)) \o "]"
    ELSE LET authors_key == IF citation.authors # <<>>
                            THEN join(",", sorted(citation.authors)) ELSE ""
         IN  authors_key \o ":" \o Fmt(citation.year)

\* _find_missing_bib_entries that records the key of every citation, matched or not
_find_missing_bib_entries_seen_all(cits, bibs) ==
    LET RECURSIVE From(_, _, _)
        From(i, missing, seen_citations) ==
            IF i > Len(cits) THEN missing
            ELSE LET citation == cits[i]
                     has_match == \E j \in 1..Len(bibs) : matches_bib(citation, bibs[j])
                     key == citation_key(citation)
                 IN  From(i + 1,
                          IF ~has_match /\ key \notin seen_citations
                          THEN Append(missing, i) ELSE missing,
                          seen_citations \cup {key})
    IN  From(1, <<>>, {})

\* _find_missing_bib_entries that keeps no set of seen keys
_find_missing_bib_entries_every_occurrence(cits, bibs) ==
    SelectSeq([i \in 1..Len(cits) |-> i],
              LAMBDA i : ~\E j \in 1..Len(bibs) : matches_bib(cits[i], bibs[j]))

\* _find_missing_bib_entries: From(i, ...) is the loop from citation i on; the
\* citations it returns are named by their index in cits
_find_missing_bib_entries(cits, bibs) ==
    LET RECURSIVE From(_, _, _)
        From(i, missing, seen_citations) ==
            IF i > Len(cits) THEN missing
            ELSE LET citation == cits[i]
                     has_match == \E j \in 1..Len(bibs) : matches_bib(citation, bibs[j])
                     key == citation_key(citation)
                 IN  IF ~has_match /\ key \notin seen_citations
                     THEN From(i + 1, Append(missing, i), seen_citations \cup {key})
                     ELSE From(i + 1, missing, seen_citations)
    IN  From(1, <<>>, {})

\* the loop of _find_uncited_references from entry j on
RECURSIVE FindUncitedFrom(_, _, _, _)
FindUncitedFrom(cits, bibs, j, uncited) ==
    IF j > Len(bibs) THEN uncited
    ELSE LET is_cited == \E i \in 1..Len(cits) : matches_bib(cits[i], bibs[j])
         IN  FindUncitedFrom(cits, bibs, j + 1,
                             IF is_cited THEN uncited ELSE Append(uncited, j))

\* _find_uncited_references that asks the first citation only
_find_uncited_references_first_only(cits, bibs) ==
    FindUncitedFrom(IF cits = <<>> THEN <<>> ELSE <<cits[1]>>, bibs, 1, <<>>)

_find_uncited_references(cits, bibs) == FindUncitedFrom(cits, bibs, 1, <<>>)

\* the inner loop of _find_year_mismatches: missing citation `c` against entry j on
RECURSIVE MismatchInner(_, _, _, _, _, _)
MismatchInner(cits, bibs, c, j, mismatches, processed_pairs) ==
    IF j > Len(bibs) THEN [mismatches |-> mismatches, processed_pairs |-> processed_pairs]
    ELSE IF ~Truthy(bibs[j].year)
    THEN MismatchInner(cits, bibs, c, j + 1, mismatches, processed_pairs)
    ELSE IF /\ authors_match_bib(cits[c], bibs[j])
            /\ cits[c].year # bibs[j].year
            /\ <<c, j>> \notin processed_pairs
         THEN MismatchInner(cits, bibs, c, j + 1, Append(mismatches, YearMismatch(c, j)),
                            processed_pairs \cup {<<c, j>>})
         ELSE MismatchInner(cits, bibs, c, j + 1, mismatches, processed_pairs)

\* the outer loop of _find_year_mismatches from the k-th missing citation on
RECURSIVE MismatchOuter(_, _, _, _, _, _)
MismatchOuter(missing, cits, bibs, k, mismatches, processed_pairs) ==
    IF k > Len(missing) THEN mismatches
    ELSE IF ~Truthy(cits[missing[k]].year)
    THEN MismatchOuter(missing, cits, bibs, k + 1, mismatches, processed_pairs)
    ELSE LET r == MismatchInner(cits, bibs, missing[k], 1, mismatches, processed_pairs)
         IN  MismatchOuter(missing, cits, bibs, k + 1, r.mismatches, r.processed_pairs)

\* _find_year_mismatches that pairs a citation with uncited entries only
_find_year_mismatches_uncited_only(missing, uncited, all_citations, all_bib_entries) ==
    SelectSeq(MismatchOuter(missing, all_citations, all_bib_entries, 1, <<>>, {}),
              LAMBDA m : \E k \in DOMAIN uncited : uncited[k] = m.bib_entry)

\* _find_year_mismatches that walks every citation, not the missing ones
_find_year_mismatches_all_citations(missing, uncited, all_citations, all_bib_entries) ==
    MismatchOuter([i \in 1..Len(all_citations) |-> i], all_citations, all_bib_entries,
                  1, <<>>, {})

_find_year_mismatches(missing, uncited, all_citations, all_bib_entries) ==
    MismatchOuter(missing, all_citations, all_bib_entries, 1, <<>>, {})

(***************************************************************************)
(* Records as the parsers build them                                       *)
(***************************************************************************)
\* parsers.py: the Citation of stages 1-3 (author-year), 4 (mla) and 5 (numeric)
AuthorYearCitation(raw_text, authors, year, position) ==
    Citation(raw_text, authors, year, None, NoNumber, position, "author-year")
MlaCitation(raw_text, authors, page, position) ==
    Citation(raw_text, authors, None, page, NoNumber, position, "mla")
NumericCitation(num, position) ==
    Citation("[" \o str(num) \o "]", <<>>, None, None, num, position, "numeric")

(***************************************************************************)
(* parsers.py: CitationParser                                              *)
(***************************************************************************)
\* [A-Z...], \d{4}[a-z]?, and the character classes of the patterns
Capital == In(UPPER)
Year == Cat(<<Rep(In(DIGIT), 4, 4, TRUE), Opt(In(LOWER))>>)
Ws == In(SPACE)
AuthorChar == In(LOWER \cup UPPER \cup SPACE \cup {"&", ","})
NameChar == In(LOWER \cup UPPER \cup {"'", "-"})
\* (?:\set\sal\.)?
EtAlDot == Opt(Cat(<<Ws, Lit("et"), Ws, Lit("al.")>>))

\* _is_non_author_pattern
non_author_words ==
    <<"hypothesis", "table", "figure", "appendix", "section",
      "chapter", "equation", "model", "result", "study",
      "example", "case", "scenario", "version", "step",
      "january", "february", "march", "april", "may", "june",
      "july", "august", "september", "october", "november", "december",
      "around", "circa", "before", "after", "since", "until",
      "between", "from", "during", "report", "year", "period",
      "spring", "summer", "fall", "autumn", "winter", "quarter",
      "vol", "volume", "issue", "page", "number", "article">>
_is_non_author_pattern(t) ==
    LET text_lower == strip(lower(t))
    IN  \E k \in 1..Len(non_author_words) : startswith(text_lower, non_author_words[k])

\* _strip_citation_prefixes: the first prefix of the list the text starts with
prefixes ==
    <<"e.g.,", "e.g.", "eg.", "i.e.,", "i.e.", "ie.", "cf.", "cf",
      "see", "see also", "but see", "but cf.", "contra", "compare">>
_strip_citation_prefixes(t) ==
    LET Strip(t1, text_lower) ==
            LET hits == {k \in 1..Len(prefixes) : startswith(text_lower, prefixes[k])}
            IN  IF hits = {} THEN t1
                ELSE LET k == CHOOSE h \in hits : \A g \in hits : h <= g
                     IN  strip(SubSeq(t1, Len(prefixes[k]) + 1, Len(t1)))
    IN  Strip(strip(t), lower(strip(t)))

\* \s+and\s+ and \s*&\s*|\s+and\s+
AndWord == Cat(<<Plus(Ws), Lit("and"), Plus(Ws)>>)
AmpOrAnd == Alt(<<Cat(<<Star(Ws), Lit("&"), Star(Ws)>>), AndWord>>)

\* [a.strip() for a in l]
StripAll(l) == [k \in 1..Len(l) |-> strip(l[k])]

\* _parse_authors, from the split on: has_and is the first test, has_comma the second
SplitAuthors(authors_str) ==
    IF contains(authors_str, "&") \/ IsMatch(re_search(AndWord, authors_str))
    THEN (IF contains(authors_str, ",")
          THEN StripAll(SplitChar(re_sub(AmpOrAnd, ",", authors_str), ","))
          ELSE StripAll(re_split(AmpOrAnd, 0, authors_str)))
    ELSE IF contains(authors_str, ",") THEN StripAll(SplitChar(authors_str, ","))
    ELSE <<strip(authors_str)>>

\* _parse_authors
_parse_authors(authors_str) ==
    LET Clean(authors) ==
            SelectSeq([k \in 1..Len(authors) |-> RStrip(authors[k], {",", ".", ";", ":"})],
                      LAMBDA a : a # "")
    IN  Clean(SplitAuthors(strip(Remove(_strip_citation_prefixes(authors_str), "et al."))))

\* int(s.strip()) raises ValueError unless the stripped str is digits
IsInt(s) == strip(s) # "" /\ \A k \in 1..Len(strip(s)) : Char(strip(s), k) \in DIGIT

\* a _parse_numbers that counts a range written downwards from its first number
_parse_numbers_either_order(numbers_str) ==
    LET IntsOf(pieces) ==
            LET good == SelectSeq(pieces, IsInt)
            IN  [k \in 1..Len(good) |-> int(strip(good[k]))]
    IN  IF contains(numbers_str, "-")
        THEN LET parts == SplitChar(numbers_str, "-")
             IN  IF Len(parts) = 2 /\ IsInt(parts[1]) /\ IsInt(parts[2])
                 THEN LET first == int(strip(parts[1]))
                          last == int(strip(parts[2]))
                      IN  IF last >= first
                          THEN [k \in 1..(last - first + 1) |-> first + k - 1]
                          ELSE [k \in 1..(first - last + 1) |-> first - k + 1]
                 ELSE <<>>
        ELSE IF contains(numbers_str, ",") THEN IntsOf(SplitChar(numbers_str, ","))
        ELSE IntsOf(<<numbers_str>>)

\* _parse_numbers; the pieces that raise ValueError are left out
_parse_numbers(numbers_str) ==
    LET IntsOf(pieces) ==
            LET good == SelectSeq(pieces, IsInt)
            IN  [k \in 1..Len(good) |-> int(strip(good[k]))]
    IN  IF contains(numbers_str, "-")
        THEN LET parts == SplitChar(numbers_str, "-")
             IN  IF Len(parts) = 2 /\ IsInt(parts[1]) /\ IsInt(parts[2])
                 THEN LET first == int(strip(parts[1]))
                          last == int(strip(parts[2]))
                      IN  [k \in 1..(IF last >= first THEN last - first + 1 ELSE 0) |->
                              first + k - 1]
                 ELSE <<>>
        ELSE IF contains(numbers_str, ",") THEN IntsOf(SplitChar(numbers_str, ","))
        ELSE IntsOf(<<numbers_str>>)

\* a test that discards only a match that starts where a claimed span starts
Covers_at_start(spans, pos) == \E p \in spans : p[1] = pos

\* any(start <= pos < end for start, end in spans)
Covers(spans, pos) == \E p \in spans : p[1] <= pos /\ pos < p[2]

\* what a stage of parse leaves behind: the list so far and the claimed spans
Parsed(cits, spans) == [citations |-> cits, parsed_positions |-> spans]
AddCitation(st, c, m) ==
    Parsed(Append(st.citations, c), st.parsed_positions \cup {<<start(m), end(m)>>})

(***************************************************************************)
(* parse, stage 1: the citations inside one pair of parentheses            *)
(***************************************************************************)
multi_cite_pattern == Cat(<<Lit("("), Group(1, Plus(NotIn({"(", ")"}))), Lit(")")>>)
has_year_pattern == Rep(In(DIGIT), 4, 4, TRUE)
split_pattern == Cat(<<Group(1, Year), Lit(","), Plus(Ws), Ahead(Capital)>>)
year_only_pattern == Cat(<<Year, Anchor("eos")>>)
cite_pattern ==
    Cat(<<Group(1, Cat(<<Capital, Plus(AuthorChar), EtAlDot>>)),
          Opt(Lit(",")), Star(Ws), Group(2, Year)>>)

\* the while loop that puts a year back behind the part before it
RECURSIVE Reassemble(_, _)
Reassemble(parts_raw, i) ==
    IF i > Len(parts_raw) THEN <<>>
    ELSE IF i + 1 <= Len(parts_raw) /\ IsMatch(re_match(year_only_pattern, parts_raw[i + 1]))
         THEN <<parts_raw[i] \o " " \o parts_raw[i + 1]>> \o Reassemble(parts_raw, i + 2)
         ELSE <<parts_raw[i]>> \o Reassemble(parts_raw, i + 1)

\* the body of "for part in parts" for one stripped part and its cite_match
CitePart(part, cite_match, m, st) ==
    LET authors_str == strip(group(cite_match, part, 1))
        year == strip(group(cite_match, part, 2))
    IN  IF part = "" \/ ~IsMatch(cite_match) \/ _is_non_author_pattern(authors_str)
        THEN st
        ELSE AddCitation(st, AuthorYearCitation("(" \o part \o ")", _parse_authors(authors_str),
                                                year, start(m)), m)

\* for part in parts
RECURSIVE ParentheticalParts(_, _, _, _)
ParentheticalParts(parts, k, m, st) ==
    IF k > Len(parts) THEN st
    ELSE ParentheticalParts(parts, k + 1, m,
             CitePart(strip(parts[k]), re_search(cite_pattern, strip(parts[k])), m, st))

\* for match in re.finditer(multi_cite_pattern, text), from matches[j] on
RECURSIVE ParseParenthetical(_, _, _, _)
ParseParenthetical(t, matches, j, st) ==
    IF j > Len(matches) THEN st
    ELSE LET content == group(matches[j], t, 1)
         IN  ParseParenthetical(t, matches, j + 1,
                 IF ~IsMatch(re_search(has_year_pattern, content)) THEN st
                 ELSE ParentheticalParts(
                          IF contains(content, ";") THEN SplitChar(content, ";")
                          ELSE Reassemble(re_split(split_pattern, 1, content), 1),
                          1, matches[j], st))

(***************************************************************************)
(* parse, stage 2: narrative citations, Author (Year)                      *)
(***************************************************************************)
\* Name(?:(?:,\s+(?:and\s+|&\s+)?|\s+(?:and|&)\s+)Name)* with Name = [A-Z...][a-z...'-]+
NameList ==
    LET Name == Cat(<<Capital, Plus(NameChar)>>)
        NameSeparator ==
            Alt(<<Cat(<<Lit(","), Plus(Ws),
                        Opt(Alt(<<Cat(<<Lit("and"), Plus(Ws)>>), Cat(<<Lit("&"), Plus(Ws)>>)>>))>>),
                  Cat(<<Plus(Ws), Alt(<<Lit("and"), Lit("&")>>), Plus(Ws)>>)>>)
    IN  Cat(<<Name, Star(Cat(<<NameSeparator, Name>>))>>)
\* (?:\s+et\s+al\.?)?
EtAl == Opt(Cat(<<Plus(Ws), Lit("et"), Plus(Ws), Lit("al"), Opt(Lit("."))>>))
narrative_pattern ==
    Cat(<<NotBehind(Cat(<<Lit(","), Ws>>), 2), Group(1, NameList), EtAl,
          Plus(Ws), Lit("("), Group(2, Year), Lit(")")>>)

\* for match in re.finditer(narrative_pattern, text), from matches[j] on
RECURSIVE ParseNarrative(_, _, _, _)
ParseNarrative(t, matches, j, st) ==
    IF j > Len(matches) THEN st
    ELSE LET m == matches[j]
             authors_str == strip(group(m, t, 1))
             year == strip(group(m, t, 2))
         IN  ParseNarrative(t, matches, j + 1,
                 IF Covers(st.parsed_positions, start(m)) \/ _is_non_author_pattern(authors_str)
                 THEN st
                 ELSE AddCitation(st, AuthorYearCitation(group0(m, t), _parse_authors(authors_str),
                                                         year, start(m)), m))

(***************************************************************************)
(* parse, stage 3: bare citations, Author Year, inside a notes section     *)
(***************************************************************************)
notes_next_section ==
    Cat(<<Lit("\n"),
          Alt(<<LitI("References"), LitI("Bibliography"), LitI("Works Cited"),
                Cat(<<LitI("Acknowledgment"), Opt(LitI("s"))>>), LitI("Appendix")>>),
          Star(Ws), Opt(Lit(":")), Star(Ws), Lit("\n")>>)

\* notes sections that are the whole text, whatever headers it holds
notes_sections_whole_text(t) == {<<0, Len(t)>>}

\* the (section_start, section_end) of the headers the text holds, 0-based
notes_sections(t) ==
    LET notes_headers == <<"Endnotes:", "Footnotes:", "Notes:">>
        Section(header) ==
            LET section_start == (find(t, header) - 1) + Len(header)
                End(next_section) ==
                    IF IsMatch(next_section) THEN section_start + start(next_section)
                    ELSE Len(t)
            IN  <<section_start,
                  End(re_search(notes_next_section, SubSeq(t, section_start + 1, Len(t))))>>
    IN  {Section(notes_headers[k]) :
            k \in {h \in 1..Len(notes_headers) : contains(t, notes_headers[h])}}

bare_citation_pattern ==
    Cat(<<Group(1, NameList), EtAl, Plus(Ws), Group(2, Year),
          Ahead(Alt(<<In({".", ";", ",", ":"} \cup SPACE), Anchor("eos")>>))>>)
\* ,\s+[A-Z]\.\s*$
initial_before_pattern ==
    Cat(<<Lit(","), Plus(Ws), In(UPPER), Lit("."), Star(Ws), Anchor("eos")>>)

\* if notes_sections: for match in re.finditer(bare_citation_pattern, text),
\* from matches[j] on
RECURSIVE ParseBare(_, _, _, _, _)
ParseBare(t, sections, matches, j, st) ==
    IF sections = {} \/ j > Len(matches) THEN st
    ELSE LET m == matches[j]
             authors_str == strip(group(m, t, 1))
             year == strip(group(m, t, 2))
             start_pos == IF start(m) - 50 > 0 THEN start(m) - 50 ELSE 0
             context_before == Slice(t, start_pos, start(m))
             raw_end == end(m)
             raw_text == IF raw_end < Len(t) /\ Char(t, raw_end + 1) \in {".", ";", ",", ":"}
                         THEN RStrip(Slice(t, start(m), raw_end + 1), {".", ",", ";", ":"})
                         ELSE group0(m, t)
         IN  ParseBare(t, sections, matches, j + 1,
                 IF \/ Covers(st.parsed_positions, start(m))
                    \/ ~Covers(sections, start(m))
                    \/ _is_non_author_pattern(authors_str)
                    \/ IsMatch(re_search(initial_before_pattern, context_before))
                 THEN st
                 ELSE AddCitation(st, AuthorYearCitation(raw_text, _parse_authors(authors_str),
                                                         year, start(m)), m))

(***************************************************************************)
(* parse, stage 4: MLA citations, (Author Page)                            *)
(***************************************************************************)
MLA_PATTERN ==
    Cat(<<Lit("("),
          Group(1, Cat(<<Capital, Plus(In(LOWER \cup UPPER \cup SPACE \cup {"&"})), EtAlDot>>)),
          Plus(Ws),
          Group(2, Cat(<<Plus(In(DIGIT)), Opt(Cat(<<Lit("-"), Plus(In(DIGIT))>>))>>)),
          Lit(")")>>)

\* for match in re.finditer(self.MLA_PATTERN, text), from matches[j] on
RECURSIVE ParseMla(_, _, _, _)
ParseMla(t, matches, j, st) ==
    IF j > Len(matches) THEN st
    ELSE LET m == matches[j]
             authors_str == strip(group(m, t, 1))
             page == strip(group(m, t, 2))
         IN  ParseMla(t, matches, j + 1,
                 IF \/ Covers(st.parsed_positions, start(m))
                    \/ (Len(page) = 4 /\ \A k \in 1..4 : Char(page, k) \in DIGIT)
                    \/ _is_non_author_pattern(authors_str)
                 THEN st
                 ELSE AddCitation(st, MlaCitation(group0(m, t), _parse_authors(authors_str),
                                                  page, start(m)), m))

(***************************************************************************)
(* parse, stage 5: numeric citations, [n], [n-m], [n,m]                    *)
(***************************************************************************)
NUMERIC_PATTERN ==
    Cat(<<Lit("["),
          Group(1, Cat(<<Plus(In(DIGIT)),
                         Star(Cat(<<Star(Ws), In({"-", ","}), Star(Ws), Plus(In(DIGIT))>>))>>)),
          Lit("]")>>)
false_positive_keywords == <<"table", "figure", "fig.", "fig", "appendix", "section", "chapter">>

\* for match in re.finditer(self.NUMERIC_PATTERN, text), from matches[j] on
RECURSIVE ParseNumeric(_, _, _, _)
ParseNumeric(t, matches, j, st) ==
    IF j > Len(matches) THEN st
    ELSE LET m == matches[j]
             start_pos == IF start(m) - 20 > 0 THEN start(m) - 20 ELSE 0
             context_before == lower(Slice(t, start_pos, start(m)))
             \* for num in numbers
             Numbered(numbers) ==
                 [k \in 1..Len(numbers) |-> NumericCitation(numbers[k], start(m))]
         IN  ParseNumeric(t, matches, j + 1,
                 IF \/ Covers(st.parsed_positions, start(m))
                    \/ \E k \in 1..Len(false_positive_keywords) :
                          contains(context_before, false_positive_keywords[k])
                 THEN st
                 ELSE Parsed(st.citations \o Numbered(_parse_numbers(group(m, t, 1))),
                             st.parsed_positions \cup {<<start(m), end(m)>>}))

\* CitationParser.parse: the five stages, each over the matches of its pattern
CitationParser_parse(t) ==
    ParseNumeric(t, re_finditer(NUMERIC_PATTERN, t), 1,
        ParseMla(t, re_finditer(MLA_PATTERN, t), 1,
            ParseBare(t, notes_sections(t), re_finditer(bare_citation_pattern, t), 1,
                ParseNarrative(t, re_finditer(narrative_pattern, t), 1,
                    ParseParenthetical(t, re_finditer(multi_cite_pattern, t), 1,
                                       Parsed(<<>>, {})))))).citations

(***************************************************************************)
(* parsers.py: BibliographyParser                                          *)
(***************************************************************************)
DefaultBibHeaders ==
    <<"references", "bibliography", "works cited", "citations", "literature cited", "sources">>

\* '^' + re.escape(header) + '\s*:?\s*$' under MULTILINE | IGNORECASE
header_pattern(header) ==
    Cat(<<Anchor("bol"), LitI(header), Star(Ws), Opt(Lit(":")), Star(Ws), Anchor("eol")>>)
bib_next_section ==
    Cat(<<Anchor("bol"),
          Alt(<<Cat(<<LitI("acknowledgment"), Opt(LitI("s"))>>), LitI("appendix"),
                Cat(<<LitI("supplementary material"), Opt(LitI("s"))>>),
                LitI("notes"), LitI("endnotes"), LitI("footnotes")>>),
          Star(Ws), Opt(Lit(":")), Star(Ws), Anchor("eol")>>)

\* the text after a matched header, up to the next section or to the end
SectionUnder(rest) ==
    LET UpTo(next_section) ==
            IF IsMatch(next_section) THEN strip(SubSeq(rest, 1, next_section.start - 1))
            ELSE strip(rest)
    IN  UpTo(re_search(bib_next_section, rest))

\* the loop of _extract_bibliography_section from headers[k] on
RECURSIVE ExtractFrom(_, _, _)
ExtractFrom(t, headers, k) ==
    LET Under(match) ==
            IF ~IsMatch(match) THEN ExtractFrom(t, headers, k + 1)
            ELSE SectionUnder(SubSeq(t, match.end, Len(t)))
    IN  IF k > Len(headers) THEN ""
        ELSE IF ~Truthy(headers[k]) THEN ExtractFrom(t, headers, k + 1)
        ELSE Under(re_search(header_pattern(headers[k]), t))

\* _extract_bibliography_section that takes the whole text when no header is found
_extract_bibliography_section_whole_text(self_bib_headers, t, custom_header) ==
    LET OrWhole(found) == IF found = "" THEN strip(t) ELSE found
    IN  OrWhole(ExtractFrom(t, IF Truthy(custom_header) THEN <<custom_header>>
                               ELSE self_bib_headers, 1))

\* _extract_bibliography_section; self_bib_headers is self.bib_headers
_extract_bibliography_section(self_bib_headers, t, custom_header) ==
    ExtractFrom(t, IF Truthy(custom_header) THEN <<custom_header>> ELSE self_bib_headers, 1)

\* the patterns of _extract_author_year
year_pattern ==
    Alt(<<Cat(<<Lit("("), Group(1, Year), Lit(")")>>),
          Cat(<<Alt(<<Anchor("bos"), Ws>>), Group(2, Year), Alt(<<Lit("."), Lit(","), Ws>>)>>)>>)
period_pattern ==
    Cat(<<Anchor("bos"), Group(1, Rep(NotIn({"."}), 1, -1, FALSE)), Lit("."),
          Alt(<<Cat(<<Plus(Ws), In(UPPER)>>), Anchor("eos")>>)>>)
quote_pattern == Cat(<<Anchor("bos"), Group(1, Plus(NotIn({"\"", "'"})))>>)
author_split_pattern ==
    Alt(<<Cat(<<Plus(Ws), Lit("&"), Plus(Ws)>>), Cat(<<Plus(Ws), Lit("and"), Plus(Ws)>>)>>)

\* _extract_author_year: the year
ExtractYear(t) ==
    LET YearOf(year_match) ==
            IF ~IsMatch(year_match) THEN None
            ELSE IF Truthy(group(year_match, t, 1)) THEN group(year_match, t, 1)
            ELSE group(year_match, t, 2)
    IN  YearOf(re_search(year_pattern, t))

\* _extract_author_year: the text the authors are read from
BeforeYear(t, year) ==
    LET UpToPeriod(period_match, quote_match) ==
            IF IsMatch(period_match) THEN strip(group(period_match, t, 1))
            ELSE IF IsMatch(quote_match) THEN strip(group(quote_match, t, 1))
            ELSE Slice(t, 0, 100)
    IN  IF Truthy(year) /\ contains(t, "(" \o year \o ")")
        THEN strip(SubSeq(t, 1, find(t, "(" \o year \o ")") - 1))
        ELSE IF Truthy(year) /\ contains(t, year)
        THEN RStrip(strip(SubSeq(t, 1, find(t, year) - 1)), {".", ",", "(", ")", " "})
        ELSE UpToPeriod(re_search(period_pattern, t), re_search(quote_pattern, t))

\* _extract_author_year: the authors in the parts of before_year, without
\* empty strings and without repeats
AuthorsIn(author_parts) ==
    LET \* [w for w in words if len(w.replace('.', '')) > 1]
        RealWords(words) == SelectSeq(words, LAMBDA w : Len(Remove(w, ".")) > 1)
        \* for i, comma_part in enumerate(comma_parts)
        RECURSIVE CommaParts(_, _)
        CommaParts(comma_parts, i) ==
            IF i > Len(comma_parts) THEN <<>>
            ELSE LET comma_part == strip(comma_parts[i])
                     real_words == RealWords(split(comma_part))
                 IN  (IF comma_part = "" THEN <<>>
                      ELSE IF i = 1 THEN <<comma_part>>
                      ELSE IF Len(real_words) >= 2 THEN <<real_words[Len(real_words)]>>
                      ELSE IF Len(real_words) = 1 /\ Len(real_words[1]) > 2
                           THEN <<real_words[1]>>
                      ELSE <<>>)
                     \o CommaParts(comma_parts, i + 1)
        \* for author_part in author_parts
        RECURSIVE AuthorParts(_)
        AuthorParts(parts) ==
            IF parts = <<>> THEN <<>>
            ELSE LET author_part == strip(parts[1])
                     words == split(author_part)
                     real_words == RealWords(words)
                 IN  (IF author_part = "" THEN <<>>
                      ELSE IF contains(author_part, ",")
                           THEN CommaParts(SplitChar(author_part, ","), 1)
                      ELSE IF real_words # <<>> THEN <<real_words[Len(real_words)]>>
                      ELSE IF words # <<>> THEN <<words[Len(words)]>>
                      ELSE <<>>)
                     \o AuthorParts(Tail(parts))
        RECURSIVE Unique(_, _)
        Unique(l, seen) ==
            IF l = <<>> THEN <<>>
            ELSE IF l[1] = "" \/ l[1] \in seen THEN Unique(Tail(l), seen)
            ELSE <<l[1]>> \o Unique(Tail(l), seen \cup {l[1]})
    IN  Unique(AuthorParts(author_parts), {})

\* _extract_author_year: (authors, year)
AuthorYear(t, year) ==
    [authors |-> AuthorsIn(re_split(author_split_pattern, 0,
                     strip(Remove(Remove(BeforeYear(t, year), "et al."), "et al")))),
     year |-> year]
_extract_author_year(t) == AuthorYear(t, ExtractYear(t))

\* _parse_numbered_entries: ^\[(\d+)\]\s*(.+?)(?=^\[\d+\]|\Z) under MULTILINE | DOTALL
numbered_pattern ==
    Cat(<<Anchor("bol"), Lit("["), Group(1, Plus(In(DIGIT))), Lit("]"), Star(Ws),
          Group(2, Rep(NotIn({}), 1, -1, FALSE)),
          Ahead(Alt(<<Cat(<<Anchor("bol"), Lit("["), Plus(In(DIGIT)), Lit("]")>>),
                      Anchor("end")>>))>>)
NumberedEntry(section_text, match, ay) ==
    LET number == int(group(match, section_text, 1))
        entry_text == strip(group(match, section_text, 2))
    IN  BibEntry("[" \o str(number) \o "] " \o entry_text, ay.authors, ay.year, number,
                 start(match), "numeric")
NumberedEntries(section_text, matches) ==
    [k \in 1..Len(matches) |->
        NumberedEntry(section_text, matches[k],
                      _extract_author_year(strip(group(matches[k], section_text, 2))))]
_parse_numbered_entries(section_text) ==
    NumberedEntries(section_text, re_finditer(numbered_pattern, section_text))

\* _create_author_year_entry: a one-element list, or the empty list for None
paren_year_pattern == Cat(<<Lit("("), Rep(In(DIGIT), 4, 4, TRUE), Lit(")")>>)
_create_author_year_entry(entry_text) ==
    LET Entry(ay) ==
            IF ay.authors = <<>> THEN <<>>
            ELSE <<BibEntry(entry_text, ay.authors, ay.year, NoNumber, 0,
                            IF IsMatch(re_search(paren_year_pattern, entry_text))
                            THEN "author-year" ELSE "mla")>>
    IN  Entry(_extract_author_year(entry_text))

\* _parse_author_year_entries: a line "Name, X..." closes the entry before it
new_entry_pattern == Cat(<<Anchor("bos"), Capital, Plus(NameChar), Lit(","), Plus(Ws), Capital>>)
RECURSIVE AuthorYearLines(_, _, _)
AuthorYearLines(lines, k, current_entry) ==
    IF k > Len(lines)
    THEN (IF current_entry # <<>> THEN _create_author_year_entry(join(" ", current_entry))
          ELSE <<>>)
    ELSE LET line == strip(lines[k])
         IN  IF line = "" THEN AuthorYearLines(lines, k + 1, current_entry)
             ELSE IF IsMatch(re_match(new_entry_pattern, line)) /\ current_entry # <<>>
             THEN _create_author_year_entry(join(" ", current_entry))
                  \o AuthorYearLines(lines, k + 1, <<line>>)
             ELSE AuthorYearLines(lines, k + 1, Append(current_entry, line))
\* _parse_author_year_entries that never closes an entry before the section ends
_parse_author_year_entries_one_entry(section_text) ==
    AuthorYearLines(<<Remove(section_text, "\n")>>, 1, <<>>)

_parse_author_year_entries(section_text) ==
    AuthorYearLines(SplitChar(section_text, "\n"), 1, <<>>)

\* BibliographyParser.parse: (entries, bib_text)
ParseSection(section_text) ==
    IF section_text = "" THEN [entries |-> <<>>, bib_text |-> ""]
    ELSE [entries |-> _parse_numbered_entries(section_text)
                      \o _parse_author_year_entries(section_text),
          bib_text |-> section_text]
BibliographyParser_parse(self_bib_headers, t, name) ==
    ParseSection(_extract_bibliography_section(self_bib_headers, t, name))

(***************************************************************************)
(* The matcher on record lists: the second half of check_document          *)
(***************************************************************************)
MaxCitations == 2
MaxEntries == 2

SeqsUpTo(S, n) == UNION {[1..k -> S] : k \in 0..n}

\* check_document after both parsers returned: the three matcher calls, then
\* the CheckResult; has_issues() is the caller's question about it
FindMissing ==
    /\ pc = "parsed"
    /\ missing_bib_entries' = _find_missing_bib_entries(citations, bib_entries)
    /\ pc' = "missing"
    /\ UNCHANGED <<text, bib_section_name, bib_headers, history, bib_text, citations, bib_entries,
                   uncited_references, year_mismatches, issues, verdict>>
    /\ UNCHANGED <<parsed_positions, files, file_path>>

FindUncited ==
    /\ pc = "missing"
    /\ uncited_references' = _find_uncited_references(citations, bib_entries)
    /\ pc' = "uncited"
    /\ UNCHANGED <<text, bib_section_name, bib_headers, history, bib_text, citations, bib_entries,
                   missing_bib_entries, year_mismatches, issues, verdict>>
    /\ UNCHANGED <<parsed_positions, files, file_path>>

FindYearMismatches ==
    /\ pc = "uncited"
    /\ year_mismatches' = _find_year_mismatches(missing_bib_entries, uncited_references,
                                                citations, bib_entries)
    /\ pc' = "done"
    /\ UNCHANGED <<text, bib_section_name, bib_headers, history, bib_text, citations, bib_entries,
                   missing_bib_entries, uncited_references, issues, verdict>>
    /\ UNCHANGED <<parsed_positions, files, file_path>>

HasIssues ==
    /\ pc = "done"
    /\ issues' = has_issues(missing_bib_entries, uncited_references, year_mismatches)
    /\ pc' = "reported"
    /\ UNCHANGED <<text, bib_section_name, bib_headers, history, bib_text, citations, bib_entries,
                   missing_bib_entries, uncited_references, year_mismatches, verdict>>
    /\ UNCHANGED <<parsed_positions, files, file_path>>

InitMatcher ==
    LET MatcherCitations ==
            { AuthorYearCitation("(Smith, 2021)", <<"Smith">>, "2021", 0),
              AuthorYearCitation("(Jones and Smith, 2020)", <<"Jones", "Smith">>, "2020", 0),
              AuthorYearCitation("Smith and Jones (2020)", <<"Smith", "Jones">>, "2020", 0),
              MlaCitation("(Smith 12)", <<"Smith">>, "12", 0),
              NumericCitation(1, 0) }
        MatcherEntries ==
            { BibEntry("Smith, J. (2020). T.", <<"Smith">>, "2020", NoNumber, 0, "author-year"),
              BibEntry("Smith, J., & Jones, M. (2020). T.", <<"Smith", "Jones">>, "2020", NoNumber, 0, "author-year"),
              BibEntry("Jones, M., & Smith, J. (2021). T.", <<"Jones", "Smith">>, "2021", NoNumber, 0, "author-year"),
              BibEntry("[1] Doe, J. T.", <<"Doe">>, None, 1, 0, "numeric") }
    IN  /\ text = ""
        /\ bib_section_name = None
        /\ bib_headers = DefaultBibHeaders
        /\ history = <<>>
        /\ bib_text = ""
        /\ pc = "parsed"
        /\ citations \in SeqsUpTo(MatcherCitations, MaxCitations)
        /\ bib_entries \in SeqsUpTo(MatcherEntries, MaxEntries)
        /\ missing_bib_entries = <<>>
        /\ uncited_references = <<>>
        /\ year_mismatches = <<>>
        /\ issues = FALSE
        /\ verdict = FALSE
        /\ parsed_positions = {}
        /\ files = <<>>
        /\ file_path = None

NextMatcher == FindMissing \/ FindUncited \/ FindYearMismatches \/ HasIssues

SpecMatcher == InitMatcher /\ [][NextMatcher]_vars

(***************************************************************************)
(* The two predicates of models.py on one citation and one entry           *)
(***************************************************************************)
\* citation.matches_bib(bib_entry) is called on the pair
MatchesBib ==
    /\ pc = "pair"
    /\ verdict' = matches_bib(citations[1], bib_entries[1])
    /\ pc' = "matches_bib"
    /\ UNCHANGED <<text, bib_section_name, bib_headers, history, bib_text, citations, bib_entries,
                   missing_bib_entries, uncited_references, year_mismatches, issues>>
    /\ UNCHANGED <<parsed_positions, files, file_path>>

\* citation.authors_match_bib(bib_entry) is called on the pair
AuthorsMatchBib ==
    /\ pc = "pair"
    /\ verdict' = authors_match_bib(citations[1], bib_entries[1])
    /\ pc' = "authors_match_bib"
    /\ UNCHANGED <<text, bib_section_name, bib_headers, history, bib_text, citations, bib_entries,
                   missing_bib_entries, uncited_references, year_mismatches, issues>>
    /\ UNCHANGED <<parsed_positions, files, file_path>>

InitPredicates ==
    LET PredCitations ==
            { AuthorYearCitation("(Smith, 2020)", <<"Smith">>, "2020", 0),
              AuthorYearCitation("(Smith, 2021)", <<"Smith">>, "2021", 0),
              AuthorYearCitation("(Lee, 2020)", <<"Lee">>, "2020", 0),
              AuthorYearCitation("(Smith-Jones, 2020)", <<"Smith-Jones">>, "2020", 0),
              AuthorYearCitation("(Van Dyke, 2020)", <<"Van Dyke">>, "2020", 0),
              AuthorYearCitation("(Smith and Jones, 2020)", <<"Smith", "Jones">>, "2020", 0),
              AuthorYearCitation("(Jones and Smith, 2020)", <<"Jones", "Smith">>, "2020", 0),
              AuthorYearCitation("(Smith, Smith, 2020)", <<"Smith", "Smith">>, "2020", 0),
              AuthorYearCitation("(See, 2020)", <<>>, "2020", 0),
              MlaCitation("(Smith 12)", <<"Smith">>, "12", 0),
              NumericCitation(1, 0),
              NumericCitation(2, 0) }
        PredEntries ==
            { BibEntry("Smith, J. (2020). T.", <<"Smith">>, "2020", NoNumber, 0, "author-year"),
              BibEntry("J. Smith, A. Jones (2020). T.", <<"J. Smith", "Jones">>, "2020", NoNumber, 0, "author-year"),
              BibEntry("Jones, M., & Smith, J. (2021). T.", <<"Jones", "Smith">>, "2021", NoNumber, 0, "author-year"),
              BibEntry("Smith, J., Jones, M., & Lee, K. (2020). T.", <<"Smith", "Jones", "Lee">>, "2020", NoNumber, 0, "author-year"),
              BibEntry("Leeds, A. (2020). T.", <<"Leeds">>, "2020", NoNumber, 0, "author-year"),
              BibEntry("Leeds, A., & Jones, M. (2021). T.", <<"Leeds", "Jones">>, "2021", NoNumber, 0, "author-year"),
              BibEntry("Dyke, A. (2020). T.", <<"Dyke">>, "2020", NoNumber, 0, "author-year"),
              BibEntry("Smith, J. T.", <<"Smith">>, None, NoNumber, 0, "mla"),
              BibEntry("., (2020). T.", <<".">>, "2020", NoNumber, 0, "author-year"),
              BibEntry("[1] Doe, J. (2019). T.", <<"Doe">>, "2019", 1, 0, "numeric"),
              BibEntry("[2] 2019. T.", <<>>, "2019", 2, 0, "numeric") }
    IN  /\ text = ""
        /\ bib_section_name = None
        /\ bib_headers = DefaultBibHeaders
        /\ history = <<>>
        /\ bib_text = ""
        /\ pc = "pair"
        /\ \E c \in PredCitations : citations = <<c>>
        /\ \E e \in PredEntries : bib_entries = <<e>>
        /\ missing_bib_entries = <<>>
        /\ uncited_references = <<>>
        /\ year_mismatches = <<>>
        /\ issues = FALSE
        /\ verdict = FALSE
        /\ parsed_positions = {}
        /\ files = <<>>
        /\ file_path = None

NextPredicates == MatchesBib \/ AuthorsMatchBib

SpecPredicates == InitPredicates /\ [][NextPredicates]_vars

(***************************************************************************)
(* check_document on a text: both parsers, then the matcher                *)
(***************************************************************************)
MaxSentences == 2

\* sentences of running prose, each with the work it cites (authors <<>> when
\* it cites none by author and year)
ProseSentences ==
    { [prose |-> "Research by Smith (2020) is important. ", authors |-> <<"Smith">>, year |-> "2020"],
      [prose |-> "Later, Smith (2020) confirms this. ", authors |-> <<"Smith">>, year |-> "2020"],
      [prose |-> "Smith (2020) is key. ", authors |-> <<"Smith">>, year |-> "2020"],
      [prose |-> "This is known (Smith, 2020). ", authors |-> <<"Smith">>, year |-> "2020"],
      [prose |-> "Jones (2021) agrees. ", authors |-> <<"Jones">>, year |-> "2021"],
      [prose |-> "Numbers help [1]. ", authors |-> <<>>, year |-> None] }

\* what follows the prose: nothing, or a header line and the entries under it
ReferenceSections ==
    { "",
      "\nReferences:\nJones, Mary. 2021. \"Different Work.\" Journal Name 1(1): 1-10.\n",
      "\nReferences\n\nSmith, J. (2020). A Title. Journal.\n",
      "\nLiterature\nSmith, J. (2019). Old Title.\n" }

\* the values of bib_section_name
HeaderArguments == {None, "Literature"}

RECURSIVE Prose(_)
Prose(body) == IF body = <<>> THEN "" ELSE body[1].prose \o Prose(Tail(body))
Compose(body, refs) == Prose(body) \o refs
Bodies == SeqsUpTo(ProseSentences, MaxSentences)
Documents == {Compose(body, refs) : body \in Bodies, refs \in ReferenceSections}

\* citations = self.citation_parser.parse(text)
ParseCitations ==
    /\ pc = "start"
    /\ citations' = CitationParser_parse(text)
    /\ pc' = "citations"
    /\ UNCHANGED <<text, bib_section_name, bib_headers, history, bib_text, bib_entries,
                   missing_bib_entries, uncited_references, year_mismatches, issues, verdict>>
    /\ UNCHANGED <<parsed_positions, files, file_path>>

\* bib_entries, bib_text = self.bib_parser.parse(text, bib_section_name)
ParseBibliography ==
    /\ pc = "citations"
    /\ LET Assign(parsed) == bib_entries' = parsed.entries /\ bib_text' = parsed.bib_text
       IN  Assign(BibliographyParser_parse(bib_headers, text, bib_section_name))
    /\ pc' = "parsed"
    /\ UNCHANGED <<text, bib_section_name, bib_headers, history, citations,
                   missing_bib_entries, uncited_references, year_mismatches, issues, verdict>>
    /\ UNCHANGED <<parsed_positions, files, file_path>>

Init ==
    /\ text \in Documents
    /\ bib_section_name \in HeaderArguments
    /\ bib_headers = DefaultBibHeaders
    /\ history = <<>>
    /\ bib_text = ""
    /\ pc = "start"
    /\ citations = <<>>
    /\ bib_entries = <<>>
    /\ missing_bib_entries = <<>>
    /\ uncited_references = <<>>
    /\ year_mismatches = <<>>
    /\ issues = FALSE
    /\ verdict = FALSE
    /\ parsed_positions = {}
    /\ files = <<>>
    /\ file_path = None

Next ==
    \/ ParseCitations
    \/ ParseBibliography
    \/ FindMissing
    \/ FindUncited
    \/ FindYearMismatches
    \/ HasIssues

Spec == Init /\ [][Next]_vars

(***************************************************************************)
(* One CitationChecker instance, called again and again                    *)
(***************************************************************************)
MaxCalls == 3

CheckResult(cits, bibs, missing, uncited, mismatches) ==
    [citations |-> cits, bib_entries |-> bibs, missing_bib_entries |-> missing,
     uncited_references |-> uncited, year_mismatches |-> mismatches]

\* check_document from line 40 on: the three matcher calls and the CheckResult
Findings(cits, bibs, missing, uncited) ==
    CheckResult(cits, bibs, missing, uncited,
                _find_year_mismatches(missing, uncited, cits, bibs))
Matched(cits, bibs) ==
    Findings(cits, bibs, _find_missing_bib_entries(cits, bibs),
             _find_uncited_references(cits, bibs))

\* check_document that leaves the custom header behind in self.bib_parser.bib_headers
check_document_keeps_header(self_bib_headers, t, name) ==
    [self |-> IF Truthy(name) THEN <<name>> ELSE self_bib_headers,
     result |-> Matched(CitationParser_parse(t),
                        BibliographyParser_parse(self_bib_headers, t, name).entries)]

\* CitationChecker.check_document as a whole: the CheckResult, and the instance
\* state (self.bib_parser.bib_headers) as the call leaves it - no statement of
\* the call assigns to it
check_document(self_bib_headers, t, name) ==
    [self |-> self_bib_headers,
     result |-> Matched(CitationParser_parse(t),
                        BibliographyParser_parse(self_bib_headers, t, name).entries)]

\* the texts of a session
SessionDocuments ==
    { "",
      "Smith (2020) is key. \nReferences\nSmith, J. (2020). A Title.\n",
      "Smith (2020) is key. \nLiterature\nSmith, J. (2019). Old Title.\n" }

\* checker.check_document(t, name), from the call to the return
CheckDocument(t, name) ==
    /\ Len(history) < MaxCalls
    /\ LET Return(r) ==
               /\ bib_headers' = r.self
               /\ history' = Append(history, [text |-> t, bib_section_name |-> name,
                                              result |-> r.result])
               /\ citations' = r.result.citations
               /\ bib_entries' = r.result.bib_entries
               /\ missing_bib_entries' = r.result.missing_bib_entries
               /\ uncited_references' = r.result.uncited_references
               /\ year_mismatches' = r.result.year_mismatches
       IN  Return(check_document(bib_headers, t, name))
    /\ text' = t
    /\ bib_section_name' = name
    /\ pc' = "returned"
    /\ UNCHANGED <<bib_text, issues, verdict>>
    /\ UNCHANGED <<parsed_positions, files, file_path>>

\* CitationChecker(): the instance right after construction
InitSession ==
    /\ text = ""
    /\ bib_section_name = None
    /\ bib_headers = DefaultBibHeaders
    /\ history = <<>>
    /\ bib_text = ""
    /\ pc = "constructed"
    /\ citations = <<>>
    /\ bib_entries = <<>>
    /\ missing_bib_entries = <<>>
    /\ uncited_references = <<>>
    /\ year_mismatches = <<>>
    /\ issues = FALSE
    /\ verdict = FALSE
    /\ parsed_positions = {}
    /\ files = <<>>
    /\ file_path = None

NextSession == \E t \in SessionDocuments, name \in HeaderArguments : CheckDocument(t, name)

SpecSession == InitSession /\ [][NextSession]_vars

(***************************************************************************)
(* check_document on documents in the styles of the repository's tests     *)
(***************************************************************************)
MaxReferences == 3

\* The documents of the check, one record for each style of the repository's
\* tests: the sentences a body is made of, the header line, and the lines of
\* the reference list.
\* Sentence: a sentence with what it cites, a work by its authors' surnames and
\* year (authors <<>> when none) and the reference numbers it names.
\* Reference: a line of the list with the work it stands for, the authors'
\* surnames in order, the year, and the number in brackets (NoNumber when none).
Styles ==
    LET Sentence(prose, authors, year, numbers) ==
            [prose |-> prose, authors |-> authors, year |-> year, numbers |-> numbers]
        Reference(line, authors, year, number) ==
            [line |-> line, authors |-> authors, year |-> year, number |-> number]
    IN
    {
      \* tests/test_checker.py: APA text, entries 'LastName, F. (Year).'
      [sentences |->
          { Sentence("Recent studies (Smith, 2020) show results. ", <<"Smith">>, "2020", {}),
            Sentence("Others agree (Jones 2021). ", <<"Jones">>, "2021", {}),
            Sentence("This is contested (see Brown, 2018). ", <<"Brown">>, "2018", {}) },
       header |-> "\nReferences:\n",
       references |->
          << Reference("Smith, J. (2020). A Study on Citations. Journal of Research.", <<"Smith">>, "2020", NoNumber),
             Reference("Jones, M. (2021). Never Cited Work. Publisher.", <<"Jones">>, "2021", NoNumber),
             Reference("Williams, A. (2019). Also Not Cited. Press.", <<"Williams">>, "2019", NoNumber) >>],
      \* tests/test_author_parsing.py: entries 'LastName, FirstName (Year).'
      [sentences |->
          { Sentence("Recent research shows important findings (Smith, 2020). ", <<"Smith">>, "2020", {}),
            Sentence("Other work confirms this (Johnson, 2021). ", <<"Johnson">>, "2021", {}) },
       header |-> "\nReferences:\n",
       references |->
          << Reference("Smith, John (2020). Article Title. Journal Name.", <<"Smith">>, "2020", NoNumber),
             Reference("Johnson, Mary Ann (2021). Another Article. Publisher.", <<"Johnson">>, "2021", NoNumber),
             Reference("Chen, Li (2021). Fourth Study. Research Publishers.", <<"Chen">>, "2021", NoNumber) >>],
      \* tests/test_year_mismatch.py: Chicago entries 'LastName, First M. Year.'
      [sentences |->
          { Sentence("Research shows important findings (Smith, 2023). ", <<"Smith">>, "2023", {}),
            Sentence("Studies by Brown and Williams (2021) show results. ", <<"Brown", "Williams">>, "2021", {}),
            Sentence("This was refined later (Seeger, 2023). ", <<"Seeger">>, "2023", {}) },
       header |-> "\nReferences:\n",
       references |->
          << Reference("Smith, John A. 2024. \"Important Findings.\" Journal Name 15(3): 123-145.",
                       <<"Smith">>, "2024", NoNumber),
             Reference("Brown, Thomas, and Sarah Williams. 2022. \"Study Results.\" Journal 10(1): 34-56.",
                       <<"Brown", "Williams">>, "2022", NoNumber),
             Reference("Seeger, Anna B. 2024. \"Late Findings.\" Journal Name 16(1): 1-20.",
                       <<"Seeger">>, "2024", NoNumber) >>],
      \* tests/test_checker.py, tests/test_parsers.py: numeric text, numbered entries
      [sentences |->
          { Sentence("Research shows [1] that citations are important [2]. ", <<>>, None, {1, 2}),
            Sentence("This is known [1]. ", <<>>, None, {1}) },
       header |-> "\nReferences:\n",
       references |->
          << Reference("[1] J. Smith, \"Title,\" Journal, 2020.", <<"Smith">>, "2020", 1),
             Reference("[2] M. Jones, \"Another,\" Conference, 2021.", <<"Jones">>, "2021", 2),
             Reference("[3] A. Williams, \"Uncited,\" Publisher, 2019.", <<"Williams">>, "2019", 3) >>],
      \* tests/test_parsers.py: bracket groups in running text, no reference list
      [sentences |->
          { Sentence("Research shows [1] that this holds. ", <<>>, None, {1}),
            Sentence("Citations matter [2,3,5]. ", <<>>, None, {2, 3, 5}),
            Sentence("Ranges work [10-12]. ", <<>>, None, {10, 11, 12}),
            Sentence("The results were stable [4]. ", <<>>, None, {4}),
            Sentence("See Table [6] for details. ", <<>>, None, {6}) },
       header |-> "",
       references |-> <<>>],
      \* tests/test_parsers.py, tests/test_deduplication_and_styles.py: one surname
      \* and a year in parentheses, with and without a comma or an introducing word
      [sentences |->
          { Sentence("It holds (Lee 2020). ", <<"Lee">>, "2020", {}),
            Sentence("It fails (cf. Green, 2017). ", <<"Green">>, "2017", {}),
            Sentence("It varies (Seeger, 2019). ", <<"Seeger">>, "2019", {}),
            Sentence("It ends (Comparetti 2016). ", <<"Comparetti">>, "2016", {}) },
       header |-> "",
       references |-> <<>>]
    }

\* a document: the sentences of its body, its reference list, and its text;
\* the reference list is any choice of the lines of the style, in their order
StyleDocuments ==
    LET SubSeqOn(l, I) ==
            [k \in 1..Cardinality(I) |->
                l[CHOOSE i \in I : Cardinality({j \in I : j < i}) = k - 1]]
        ReferenceLists(style) ==
            { SubSeqOn(style.references, I) :
                I \in {J \in SUBSET DOMAIN style.references : Cardinality(J) <= MaxReferences} }
        RECURSIVE Lines(_)
        Lines(refs) == IF refs = <<>> THEN "" ELSE refs[1].line \o "\n" \o Lines(Tail(refs))
        StyleDocument(style, body, refs) ==
            [body |-> body, references |-> refs,
             text |-> Prose(body) \o (IF style.header = "" THEN "" ELSE style.header \o Lines(refs))]
    IN  UNION { { StyleDocument(style, body, refs) :
                    body \in SeqsUpTo(style.sentences, MaxSentences),
                    refs \in ReferenceLists(style) } :
                style \in Styles }

\* checker.check_document(text), text a document of one of the styles
InitStyles ==
    /\ text \in {d.text : d \in StyleDocuments}
    /\ bib_section_name = None
    /\ bib_headers = DefaultBibHeaders
    /\ history = <<>>
    /\ bib_text = ""
    /\ pc = "start"
    /\ citations = <<>>
    /\ bib_entries = <<>>
    /\ missing_bib_entries = <<>>
    /\ uncited_references = <<>>
    /\ year_mismatches = <<>>
    /\ issues = FALSE
    /\ verdict = FALSE
    /\ parsed_positions = {}
    /\ files = <<>>
    /\ file_path = None

SpecStyles == InitStyles /\ [][Next]_vars

(***************************************************************************)
(* document_reader.py: DocumentReader                                      *)
(* A path holds nothing, a directory, or a regular file with its bytes:    *)
(* [kind |-> "absent" | "directory" | "file", content |-> the bytes].      *)
(* The bytes are written as a string in which the character "~" stands for *)
(* a byte sequence that is not valid UTF-8.  A call ends with a record     *)
(* [raised |-> the exception or None, text |-> the str returned].          *)
(***************************************************************************)
MaxFiles == 2

\* _read_text_file: f.read() of open(file_path, 'r', encoding='utf-8',
\* errors='ignore'); the undecodable bytes are dropped, then every line ending
\* becomes "\n"; open() of a directory raises
_read_text_file(entry) ==
    LET RECURSIVE UniversalNewlines(_)
        UniversalNewlines(s) ==
            IF s = "" THEN ""
            ELSE IF StartsAt(s, 1, "\r\n") THEN "\n" \o UniversalNewlines(SubSeq(s, 3, Len(s)))
            ELSE IF Char(s, 1) = "\r" THEN "\n" \o UniversalNewlines(SubSeq(s, 2, Len(s)))
            ELSE Char(s, 1) \o UniversalNewlines(SubSeq(s, 2, Len(s)))
    IN  IF entry.kind = "directory" THEN [raised |-> "IsADirectoryError", text |-> ""]
        ELSE [raised |-> None, text |-> UniversalNewlines(Remove(entry.content, "~"))]

\* DocumentReader.read_file(file_path): the outcomes the call can have.
\* suffix is Path(file_path).suffix.lower(): the final component from its last
\* dot on, when the dot is neither its first nor its last character.
\* _read_docx_file and _read_pdf_file: the import of the library fails, or the
\* library rejects the bytes, or it returns the text it extracts.
read_file(fs, path) ==
    LET Dots(name) == {i \in 1..Len(name) : Char(name, i) = "."}
        Last(S) == CHOOSE i \in S : \A j \in S : j <= i
        From(name, dots) ==
            IF dots = {} \/ Last(dots \cup {1}) = 1 \/ Last(dots \cup {1}) = Len(name) THEN ""
            ELSE SubSeq(name, Last(dots), Len(name))
        Name(slashes) ==
            IF slashes = {} THEN path ELSE SubSeq(path, Last(slashes) + 1, Len(path))
        Suffix(name) == From(name, Dots(name))
        suffix == lower(Suffix(Name({i \in 1..Len(path) : Char(path, i) = "/"})))
        Extracted == {"", "Smith (2020) is key."}
        _read_with_library ==
            {[raised |-> e, text |-> ""] : e \in {"ImportError", "LibraryError"}}
                \cup {[raised |-> None, text |-> t] : t \in Extracted}
    IN  IF fs[path].kind = "absent" THEN {[raised |-> "FileNotFoundError", text |-> ""]}
        ELSE IF suffix \in {".txt", ".md", ".markdown", ".tex", ".latex"}
             THEN {_read_text_file(fs[path])}
        ELSE IF suffix \in {".docx", ".pdf"}
             THEN _read_with_library
        ELSE IF _read_text_file(fs[path]).raised # None
             THEN {[raised |-> "ValueError", text |-> ""]}
        ELSE {_read_text_file(fs[path])}

\* one call of DocumentReader.read_file(file_path)
ReadFile ==
    /\ pc = "start"
    /\ \E outcome \in read_file(files, file_path) :
          /\ text' = outcome.text
          /\ pc' = IF outcome.raised = None THEN "returned" ELSE outcome.raised
    /\ UNCHANGED <<bib_section_name, bib_headers, history, bib_text, citations,
                   bib_entries, missing_bib_entries, uncited_references,
                   year_mismatches, issues, verdict, parsed_positions, files,
                   file_path>>

InitReader ==
    LET Paths == {"paper.txt", "PAPER.MD", "notes/paper.tex", "paper.docx", "paper.pdf",
                  "paper.xyz", "paper", ".txt", "v1.2/paper"}
        Contents == {"", "Smith (2020) is key.\n", "A\r\nB\rC~\n"}
        Entries == {[kind |-> "directory", content |-> ""]}
                       \cup {[kind |-> "file", content |-> c] : c \in Contents}
    IN  /\ \E J \in {I \in SUBSET Paths : Cardinality(I) <= MaxFiles} :
              \E f \in [J -> Entries] :
                 files = [p \in Paths |->
                             IF p \in J THEN f[p] ELSE [kind |-> "absent", content |-> ""]]
        /\ file_path \in Paths
        /\ text = ""
        /\ bib_section_name = None
        /\ bib_headers = DefaultBibHeaders
        /\ history = <<>>
        /\ bib_text = ""
        /\ pc = "start"
        /\ citations = <<>>
        /\ bib_entries = <<>>
        /\ missing_bib_entries = <<>>
        /\ uncited_references = <<>>
        /\ year_mismatches = <<>>
        /\ issues = FALSE
        /\ verdict = FALSE
        /\ parsed_positions = {}

SpecReader == InitReader /\ [][ReadFile]_vars

(***************************************************************************)
(* CitationParser.parse, stage by stage: citations and parsed_positions    *)
(* are the locals of parse, pc names the stage that has just run.          *)
(***************************************************************************)
\* one for-loop of parse: the stage after the one pc names
ParseStage ==
    /\ pc \in {"start", "parenthetical", "narrative", "bare", "mla"}
    /\ LET Leave(stage, parsed) ==
               /\ citations' = parsed.citations
               /\ parsed_positions' = parsed.parsed_positions
               /\ pc' = stage
           st == Parsed(citations, parsed_positions)
       IN  CASE pc = "start" ->
                    Leave("parenthetical",
                          ParseParenthetical(text, re_finditer(multi_cite_pattern, text), 1, st))
             [] pc = "parenthetical" ->
                    Leave("narrative",
                          ParseNarrative(text, re_finditer(narrative_pattern, text), 1, st))
             [] pc = "narrative" ->
                    Leave("bare",
                          ParseBare(text, notes_sections(text),
                                    re_finditer(bare_citation_pattern, text), 1, st))
             [] pc = "bare" ->
                    Leave("mla", ParseMla(text, re_finditer(MLA_PATTERN, text), 1, st))
             [] pc = "mla" ->
                    Leave("numeric",
                          ParseNumeric(text, re_finditer(NUMERIC_PATTERN, text), 1, st))
    /\ UNCHANGED <<text, bib_section_name, bib_headers, history, bib_text, bib_entries,
                   missing_bib_entries, uncited_references, year_mismatches, issues,
                   verdict, files, file_path>>

\* texts in which the patterns of several stages match at or inside the same
\* parentheses
InitParse ==
    LET Sentences ==
            { [prose |-> "It holds (Smith, 2020 [1]). "],
              [prose |-> "Notes: (Smith 2020, p. 5). "],
              [prose |-> "Both (Kim 2021) and (Park 45) hold [2]. "],
              [prose |-> "Smith 2020, and Lee (2019). "],
              [prose |-> "So (Smith 2020-21) says. "],
              [prose |-> "See Table [3]. "],
              [prose |-> "Odd ranges [5-3], [1-3,5], [1-2-3] and [7-8] occur. "],
              [prose |-> "Footnotes: Lee 2019. "],
              [prose |-> "It holds (Mayer, 2020). "],
              [prose |-> "As noted (See 2020). "],
              [prose |-> "It came (November 2002) or (TABLE 2020). "],
              [prose |-> "\nReferences:\nKim 2021. "] }
    IN  /\ text \in {Prose(body) : body \in SeqsUpTo(Sentences, MaxSentences)}
        /\ bib_section_name = None
        /\ bib_headers = DefaultBibHeaders
        /\ history = <<>>
        /\ bib_text = ""
        /\ pc = "start"
        /\ citations = <<>>
        /\ bib_entries = <<>>
        /\ missing_bib_entries = <<>>
        /\ uncited_references = <<>>
        /\ year_mismatches = <<>>
        /\ issues = FALSE
        /\ verdict = FALSE
        /\ parsed_positions = {}
        /\ files = <<>>
        /\ file_path = None

SpecParse == InitParse /\ [][ParseStage]_vars

(***************************************************************************)
(* check_document on texts that end in headed blocks of lines: reference   *)
(* sections under several headers, with continuation lines and numbered    *)
(* entries, and the sections that may follow them                          *)
(***************************************************************************)
MaxBlocks == 2

InitSections ==
    LET Blocks ==
            { [prose |-> "\nSources\nSmith, J. (2020). A Title. Journal.\n"],
              [prose |-> "\nReferences\nJones, M. (2021). Other. Press.\n"],
              [prose |-> "\nBibliography:\nSmith, J. (2020). A Title.\n  Journal of Things.\n\nJones, M. (2021). Other.\nPress of the City.\n"],
              [prose |-> "\nReferences:\nSmith, J. (2020). A Title. Journal.\n[1] M. Jones, \"Another,\" Conference, 2021.\n"],
              [prose |-> "\nAppendix\nData of Jones (2021).\n"],
              [prose |-> "\nNotes:\nSee Smith 2020.\n"] }
    IN  /\ text \in {"Jones (2021) agrees. " \o Prose(blocks) :
                        blocks \in SeqsUpTo(Blocks, MaxBlocks)}
        /\ bib_section_name = None
        /\ bib_headers = DefaultBibHeaders
        /\ history = <<>>
        /\ bib_text = ""
        /\ pc = "start"
        /\ citations = <<>>
        /\ bib_entries = <<>>
        /\ missing_bib_entries = <<>>
        /\ uncited_references = <<>>
        /\ year_mismatches = <<>>
        /\ issues = FALSE
        /\ verdict = FALSE
        /\ parsed_positions = {}
        /\ files = <<>>
        /\ file_path = None

SpecSections == InitSections /\ [][Next]_vars

(***************************************************************************)
(* Properties of the matcher (SpecMatcher)                                 *)
(***************************************************************************)
Range(l) == {l[k] : k \in DOMAIN l}
CitationRefs == 1..Len(citations)
EntryRefs == 1..Len(bib_entries)
MissingSet == Range(missing_bib_entries)
UncitedSet == Range(uncited_references)

\* citation i has no entry satisfying the match predicate
Unmatched(i) == ~\E j \in EntryRefs : matches_bib(citations[i], bib_entries[j])
\* entry j has no citation satisfying the match predicate
Uncited(j) == ~\E i \in CitationRefs : matches_bib(citations[i], bib_entries[j])

\* the first-author condition of matches_bib: the normalized first authors are
\* equal or one is a substring of the other
FirstAuthorCondition(c, e) ==
    LET a == normalize_name(c.authors[1])
        b == normalize_name(e.authors[1])
    IN  a = b \/ contains(a, b) \/ contains(b, a)

YearsAgreeOrAbsent(c, e) == (Truthy(c.year) /\ Truthy(e.year)) => c.year = e.year

\* C1: in every result, (a) no citation reported missing has a matching entry, and
\* (b) every citation without a matching entry is reported missing itself or shares
\* its dedup key with a citation that is.
C1_MissingNeverMatched ==
    pc = "done" =>
        /\ \A i \in MissingSet : i \in CitationRefs /\ Unmatched(i)
        /\ \A i \in CitationRefs : Unmatched(i) =>
              \/ i \in MissingSet
              \/ \E m \in MissingSet : citation_key(citations[m]) = citation_key(citations[i])

\* a result where a citation is reported missing and a later unmatched one with
\* the same key is collapsed into it
C1_Witness ==
    /\ pc = "done"
    /\ missing_bib_entries # <<>>
    /\ \E i \in CitationRefs : Unmatched(i) /\ i \notin MissingSet

\* C2: uncited_references holds exactly the entries no citation matches, each once;
\* so a matching pair (c, e) has c not missing and e not uncited.
C2_UncitedExactlyUnmatched ==
    pc = "done" =>
        /\ UncitedSet = {j \in EntryRefs : Uncited(j)}
        /\ Len(uncited_references) = Cardinality(UncitedSet)
        /\ \A i \in CitationRefs, j \in EntryRefs :
              matches_bib(citations[i], bib_entries[j]) =>
                  i \notin MissingSet /\ j \notin UncitedSet

\* a result with one cited and one uncited entry, the cited one matched by the
\* second citation only
C2_Witness ==
    /\ pc = "done"
    /\ uncited_references # <<>>
    /\ \E j \in EntryRefs : /\ j \notin UncitedSet
                            /\ ~matches_bib(citations[1], bib_entries[j])

\* C4: every YearMismatch pairs a citation of missing_bib_entries with an entry,
\* both with a year, the years different, and authors_match_bib true; so there
\* is a year mismatch only when something is missing.
C4_YearMismatchExclusive ==
    pc = "done" =>
        /\ \A k \in DOMAIN year_mismatches :
              LET m == year_mismatches[k]
                  c == citations[m.citation]
                  e == bib_entries[m.bib_entry]
              IN  /\ m.citation \in MissingSet
                  /\ Truthy(c.year) /\ Truthy(e.year)
                  /\ c.year # e.year
                  /\ authors_match_bib(c, e)
        /\ (year_mismatches # <<>> => missing_bib_entries # <<>>)

\* a result with a year mismatch, next to a matched citation whose authors also
\* equal those of an entry of another year
C4_Witness ==
    /\ pc = "done"
    /\ year_mismatches # <<>>
    /\ \E i \in CitationRefs, j \in EntryRefs :
          /\ i \notin MissingSet
          /\ authors_match_bib(citations[i], bib_entries[j])
          /\ Truthy(citations[i].year) /\ Truthy(bib_entries[j].year)
          /\ citations[i].year # bib_entries[j].year

\* the (citation, entry) pairs reported as year mismatches
MismatchPairs == {<<year_mismatches[k].citation, year_mismatches[k].bib_entry>> :
                    k \in DOMAIN year_mismatches}

\* C7 as stated: authors_match_bib implies the first-author condition of
\* matches_bib, hence (years equal or one absent) matches_bib; so a missing
\* citation has no entry with authors_match_bib and the same year, and every
\* such pair with years differs in year and is reported.
C7_AuthorsMatchImpliesMatch ==
    pc = "done" =>
        /\ \A i \in CitationRefs, j \in EntryRefs :
              authors_match_bib(citations[i], bib_entries[j]) =>
                  /\ FirstAuthorCondition(citations[i], bib_entries[j])
                  /\ (YearsAgreeOrAbsent(citations[i], bib_entries[j])
                          => matches_bib(citations[i], bib_entries[j]))
        /\ \A i \in MissingSet, j \in EntryRefs :
              ( /\ Truthy(citations[i].year) /\ Truthy(bib_entries[j].year)
                /\ authors_match_bib(citations[i], bib_entries[j]) ) =>
                    /\ citations[i].year # bib_entries[j].year
                    /\ <<i, j>> \in MismatchPairs

\* C7 amended: the implication holds for a citation with one author; for a
\* citation with several authors authors_match_bib only puts its first author
\* somewhere among the entry's authors. Every (missing citation with year, entry
\* with year) pair satisfying authors_match_bib with differing years is reported;
\* one with the same year exists only for a citation of several authors whose
\* first author fails the first-author condition.
C7_SingleAuthorImpliesMatch ==
    pc = "done" =>
        /\ \A i \in CitationRefs, j \in EntryRefs :
              authors_match_bib(citations[i], bib_entries[j]) =>
                  /\ \E k \in 1..Len(bib_entries[j].authors) :
                        normalize_name(citations[i].authors[1])
                            = normalize_name(bib_entries[j].authors[k])
                  /\ Len(citations[i].authors) = 1 =>
                        /\ FirstAuthorCondition(citations[i], bib_entries[j])
                        /\ (YearsAgreeOrAbsent(citations[i], bib_entries[j])
                                => matches_bib(citations[i], bib_entries[j]))
        /\ \A i \in MissingSet, j \in EntryRefs :
              ( /\ Truthy(citations[i].year) /\ Truthy(bib_entries[j].year)
                /\ authors_match_bib(citations[i], bib_entries[j]) ) =>
                    IF citations[i].year # bib_entries[j].year
                    THEN <<i, j>> \in MismatchPairs
                    ELSE /\ Len(citations[i].authors) > 1
                         /\ ~FirstAuthorCondition(citations[i], bib_entries[j])

\* a result where a one-author missing citation is paired with an entry of
\* several authors and another year
C7_Witness ==
    /\ pc = "done"
    /\ \E i \in MissingSet, j \in EntryRefs :
          /\ Len(citations[i].authors) = 1
          /\ Len(bib_entries[j].authors) > 1
          /\ authors_match_bib(citations[i], bib_entries[j])
          /\ <<i, j>> \in MismatchPairs

\* C8: has_issues() is true iff one of the three finding lists is non-empty.
C8_HasIssuesIffAnyFinding ==
    pc = "reported" =>
        (issues <=> ( \/ missing_bib_entries # <<>>
                      \/ uncited_references # <<>>
                      \/ year_mismatches # <<>> ))

\* has_issues() answered for a result whose only finding is an uncited reference
C8_Witness ==
    /\ pc = "reported"
    /\ issues
    /\ missing_bib_entries = <<>>
    /\ year_mismatches = <<>>
    /\ uncited_references # <<>>

(***************************************************************************)
(* Properties of the two predicates (SpecPredicates)                       *)
(***************************************************************************)
\* the record with only its first author kept
FirstAuthorOnly(r) ==
    IF r.authors = <<>> THEN r ELSE [r EXCEPT !.authors = <<r.authors[1]>>]

\* C5: matches_bib is number equality for a numeric citation; otherwise it is
\* true iff both author lists are non-empty, the first-author condition holds
\* and the years agree when both are set; authors after the first play no part.
C5_MatchesBib ==
    pc = "matches_bib" =>
        LET c == citations[1]
            e == bib_entries[1]
        IN  IF c.citation_type = "numeric"
            THEN verdict <=> (c.number = e.number)
            ELSE /\ verdict <=> ( /\ c.authors # <<>> /\ e.authors # <<>>
                                  /\ FirstAuthorCondition(c, e)
                                  /\ YearsAgreeOrAbsent(c, e) )
                 /\ verdict <=> matches_bib(FirstAuthorOnly(c), FirstAuthorOnly(e))

\* matches_bib answered true for first authors that differ, one within the other
C5_Witness ==
    /\ pc = "matches_bib"
    /\ verdict
    /\ citations[1].citation_type = "author-year"
    /\ normalize_name(citations[1].authors[1]) # normalize_name(bib_entries[1].authors[1])

\* C6: authors_match_bib is false for a numeric citation and for an empty author
\* list; for one citation author against several entry authors it is exact
\* equality of the normalized first authors; otherwise equal lengths and every
\* normalized citation author among the normalized entry authors.
C6_AuthorsMatchBib ==
    pc = "authors_match_bib" =>
        LET c == citations[1]
            e == bib_entries[1]
            ca == {normalize_name(c.authors[i]) : i \in 1..Len(c.authors)}
            ea == {normalize_name(e.authors[i]) : i \in 1..Len(e.authors)}
        IN  IF c.citation_type = "numeric" \/ c.authors = <<>> \/ e.authors = <<>>
            THEN ~verdict
            ELSE IF Len(c.authors) = 1 /\ Len(e.authors) > 1
            THEN verdict <=> (normalize_name(c.authors[1]) = normalize_name(e.authors[1]))
            ELSE verdict <=> (Len(c.authors) = Len(e.authors) /\ ca \subseteq ea)

\* authors_match_bib answered false for 'Lee' against an entry by 'Leeds' and others
C6_Witness ==
    /\ pc = "authors_match_bib"
    /\ ~verdict
    /\ Len(citations[1].authors) = 1
    /\ Len(bib_entries[1].authors) > 1
    /\ normalize_name(citations[1].authors[1]) # normalize_name(bib_entries[1].authors[1])
    /\ contains(normalize_name(bib_entries[1].authors[1]), normalize_name(citations[1].authors[1]))

(***************************************************************************)
(* Properties of check_document on a text (Spec)                           *)
(***************************************************************************)
\* the sentences of `body` that cite the work (authors, year)
Citing(body, authors, year) ==
    {k \in DOMAIN body : body[k].authors = authors /\ body[k].year = year}
\* the records of the citations list for the work (authors, year)
RecordsFor(authors, year) ==
    {i \in CitationRefs : citations[i].authors = authors /\ citations[i].year = year}
\* no parsed entry matches a citation of the work
NoEntryMatches(authors, year) ==
    \A j \in EntryRefs : ~matches_bib(AuthorYearCitation("", authors, year, 0), bib_entries[j])

\* C3: when a text cites the same author+year work in k >= 1 sentences of its
\* prose, wherever in the sentence, and no entry matches it, the citations list
\* holds k records for the work and missing_bib_entries exactly one; so distinct
\* unmatched works are reported once each.
C3_DedupLaw ==
    pc = "done" =>
        \A body \in Bodies, refs \in ReferenceSections :
            text = Compose(body, refs) =>
                \A k \in DOMAIN body :
                    (body[k].authors # <<>> /\ NoEntryMatches(body[k].authors, body[k].year)) =>
                        /\ Cardinality(RecordsFor(body[k].authors, body[k].year))
                              = Cardinality(Citing(body, body[k].authors, body[k].year))
                        /\ Cardinality(RecordsFor(body[k].authors, body[k].year) \cap MissingSet) = 1

\* the bibliography headers a call recognizes
RecognizedHeaders == IF Truthy(bib_section_name) THEN <<bib_section_name>> ELSE bib_headers
\* the line is the header, in any case, with nothing after it but blanks and one colon
IsHeaderLine(line, header) ==
    LET l == RStrip(lower(line), SPACE)
    IN  \/ l = lower(header)
        \/ /\ l # "" /\ Char(l, Len(l)) = ":"
           /\ RStrip(SubSeq(l, 1, Len(l) - 1), SPACE) = lower(header)
HasHeaderLine ==
    \E line \in Range(SplitChar(text, "\n")), k \in DOMAIN RecognizedHeaders :
        IsHeaderLine(line, RecognizedHeaders[k])
CitationKeys == {citation_key(citations[i]) : i \in CitationRefs}

\* C10: when no line of the text is a recognized bibliography header (the empty
\* text included), BibliographyParser.parse returns ([], "") and check_document
\* ends with bib_entries, uncited_references and year_mismatches empty and one
\* missing record for each distinct dedup key of the citations.
C10_NoHeaderNoEntries ==
    ~HasHeaderLine =>
        /\ pc \in {"parsed", "missing", "uncited", "done", "reported"} =>
              bib_entries = <<>> /\ bib_text = ""
        /\ pc = "done" =>
              /\ uncited_references = <<>>
              /\ year_mismatches = <<>>
              /\ {citation_key(citations[m]) : m \in MissingSet} = CitationKeys
              /\ Len(missing_bib_entries) = Cardinality(CitationKeys)

\* a finished check of a text whose entries stand under a header the call does
\* not recognize, with two citations of one key
C10_Witness ==
    /\ pc = "done"
    /\ ~HasHeaderLine
    /\ contains(text, "Literature\n")
    /\ Len(citations) = 2
    /\ Len(missing_bib_entries) = 1

(***************************************************************************)
(* Properties of a session on one instance (SpecSession)                   *)
(***************************************************************************)
SameCall(a, b) == a.text = b.text /\ a.bib_section_name = b.bib_section_name

\* C9: two calls of check_document with the same text and header argument on
\* one instance return equal results, and the result of a call is the one a
\* fresh instance returns, whatever the instance was given before.
C9_IdempotentStateless ==
    /\ \A j, k \in DOMAIN history :
          SameCall(history[j], history[k]) => history[j].result = history[k].result
    /\ history # <<>> =>
          LET last == history[Len(history)]
          IN  last.result = check_document(DefaultBibHeaders, last.text,
                                           last.bib_section_name).result

\* a session of three calls: the same document before and after a document
\* read under a custom header, entries found each time
C9_Witness ==
    /\ Len(history) = 3
    /\ SameCall(history[1], history[3])
    /\ history[1].bib_section_name = None
    /\ history[2].bib_section_name = "Literature"
    /\ \A k \in 1..3 : history[k].result.bib_entries # <<>>

(***************************************************************************)
(* Properties of check_document on the documents of the styles (SpecStyles)*)
(***************************************************************************)
\* the documents the text of the state stands for
TheDocuments == {d \in StyleDocuments : d.text = text}
\* the sentence cites the work of the reference: by its number, or by the
\* surname of its first author and its year
Cites(sentence, r) ==
    \/ r.number \in sentence.numbers
    \/ /\ sentence.authors # <<>>
       /\ sentence.authors[1] = r.authors[1]
       /\ sentence.year = r.year
CitedIn(body, r) == \E k \in DOMAIN body : Cites(body[k], r)
HasReference(sentence, refs) ==
    /\ sentence.authors # <<>> => \E k \in DOMAIN refs : Cites(sentence, refs[k])
    /\ \A n \in sentence.numbers : \E k \in DOMAIN refs : refs[k].number = n
NotCited(d) == {k \in DOMAIN d.references : ~CitedIn(d.body, d.references[k])}

\* C11: the entries reported in uncited_references are exactly the lines of the
\* reference list that no sentence of the body cites, one record each; a
\* numbered list whose numbers the body names but for one gives one uncited
\* reference, the one with that number, and no missing entry.
C11_UncitedDetection ==
    pc = "done" =>
        \A d \in TheDocuments :
            d.references # <<>> =>
                /\ Len(uncited_references) = Cardinality(NotCited(d))
                /\ {bib_entries[j].raw_text : j \in UncitedSet}
                      = {d.references[k].line : k \in NotCited(d)}
                /\ {bib_entries[j].number : j \in UncitedSet}
                      = {d.references[k].number : k \in NotCited(d)}
                /\ (\A k \in DOMAIN d.body : HasReference(d.body[k], d.references))
                      => missing_bib_entries = <<>>

\* a document in author-year style: sentences that cite by author and year,
\* references without numbers
AuthorYearStyle(d) ==
    /\ \A k \in DOMAIN d.body : d.body[k].authors # <<>> /\ d.body[k].numbers = {}
    /\ \A k \in DOMAIN d.references : d.references[k].number = NoNumber

\* C12: when every citation of the body has a reference with the same first
\* author and year and every reference is cited in the body, check_document
\* reports no missing entry and no uncited reference, whatever the form of the
\* given names in the references.
C12_NoFalseFindings ==
    pc = "done" =>
        \A d \in TheDocuments :
            ( /\ AuthorYearStyle(d)
              /\ d.body # <<>>
              /\ \A k \in DOMAIN d.body : HasReference(d.body[k], d.references)
              /\ NotCited(d) = {} )
            => missing_bib_entries = <<>> /\ uncited_references = <<>>

\* the citation and the entry of the only year mismatch of the result
MismatchCitation == citations[year_mismatches[1].citation]
MismatchEntry == bib_entries[year_mismatches[1].bib_entry]
\* a document with one sentence and one reference
OneToOne(d) == Len(d.body) = 1 /\ Len(d.references) = 1

\* C13: a document whose only citation is '(A, Y1)' and whose only reference is
\* by the single author A with another year Y2 gets exactly one year mismatch:
\* its citation has year Y1 and first author A, its entry year Y2 and first
\* author A.
C13_SingleAuthorYearMismatch ==
    pc = "done" =>
        \A d \in TheDocuments :
            ( /\ AuthorYearStyle(d) /\ OneToOne(d)
              /\ Len(d.body[1].authors) = 1
              /\ contains(d.body[1].prose,
                          "(" \o d.body[1].authors[1] \o ", " \o d.body[1].year \o ")")
              /\ d.references[1].authors = d.body[1].authors
              /\ d.references[1].year # d.body[1].year )
            => /\ Len(year_mismatches) = 1
               /\ MismatchCitation.year = d.body[1].year
               /\ MismatchCitation.authors # <<>>
               /\ MismatchCitation.authors[1] = d.body[1].authors[1]
               /\ MismatchEntry.year = d.references[1].year
               /\ MismatchEntry.authors # <<>>
               /\ MismatchEntry.authors[1] = d.body[1].authors[1]

\* C14: a document whose only citation names exactly two authors A and B with
\* year Y1 and whose only reference is by exactly those two authors, written
\* 'A, First, and First B. Y2.' with another year Y2, gets exactly one year
\* mismatch, which pairs that citation (year Y1) with that entry (year Y2).
C14_TwoAuthorYearMismatch ==
    pc = "done" =>
        \A d \in TheDocuments :
            ( /\ AuthorYearStyle(d) /\ OneToOne(d)
              /\ Len(d.body[1].authors) = 2
              /\ d.references[1].authors = d.body[1].authors
              /\ d.references[1].year # d.body[1].year )
            => /\ Len(year_mismatches) = 1
               /\ MismatchCitation.year = d.body[1].year
               /\ MismatchCitation.authors = d.body[1].authors
               /\ MismatchEntry.year = d.references[1].year
               /\ MismatchEntry.raw_text = d.references[1].line

\* the places of the text where a bracket group opens (1-based)
GroupStarts == {i \in 1..Len(text) : Char(text, i) = "["}
\* one of the words occurs as a word, in any case, within the 20 characters
\* before the place g
KeywordBefore(g) ==
    \E w \in {"table", "figure", "fig", "appendix", "section", "chapter"} :
        \E i \in 1..(g - 1) :
            /\ i >= g - 20
            /\ i + Len(w) <= g
            /\ StartsAt(lower(text), i, w)
            /\ i = 1 \/ Char(text, i - 1) \notin (UPPER \cup LOWER)
            /\ Char(text, i + Len(w)) \notin (UPPER \cup LOWER)
\* the numbers of the numeric citations whose position is pos (0-based)
NumbersAt(pos) ==
    {citations[i].number : i \in {j \in CitationRefs :
        citations[j].citation_type = "numeric" /\ citations[j].position = pos}}
NumericNumbers ==
    {citations[i].number : i \in {j \in CitationRefs : citations[j].citation_type = "numeric"}}
\* a document of bracket groups only: no reference list, no author-year citation
GroupsOnly(d) ==
    d.references = <<>> /\ \A k \in DOMAIN d.body : d.body[k].authors = <<>>
\* the sentence has one bracket group
OneGroup(sentence) ==
    Cardinality({i \in 1..Len(sentence.prose) : Char(sentence.prose, i) = "["}) = 1

\* C15: in a text whose bracket groups are numbers, comma lists and ranges, none
\* of them with one of the words table, figure, fig, appendix, section, chapter
\* as a word in the 20 characters before it, the numbers of the numeric
\* citations are exactly the numbers of the groups, and the citations of one
\* group are at the position of the group.
C15_NumericRoundTrip ==
    pc # "start" =>
        \A d \in TheDocuments :
            (GroupsOnly(d) /\ \A g \in GroupStarts : ~KeywordBefore(g)) =>
                /\ NumericNumbers = UNION {d.body[k].numbers : k \in DOMAIN d.body}
                /\ \A k \in DOMAIN d.body :
                      OneGroup(d.body[k]) =>
                          NumbersAt(Len(Prose(SubSeq(d.body, 1, k - 1)))
                                    + find(d.body[k].prose, "[") - 1)
                              = d.body[k].numbers

\* the reference list is '[1] ...', ..., '[k] ...', one entry a line
NumberedList(d) ==
    /\ d.references # <<>>
    /\ \A k \in DOMAIN d.references : d.references[k].number = k

\* C16: for a reference section that is k numbered entries '[1] ...' to
\* '[k] ...', BibliographyParser.parse returns exactly k entries, numbered 1..k
\* in this order and of type numeric; the author-year pass adds none.
C16_NumberedEntriesOnly ==
    pc \notin {"start", "citations"} =>
        \A d \in TheDocuments :
            NumberedList(d) =>
                /\ Len(bib_entries) = Len(d.references)
                /\ \A j \in EntryRefs :
                      bib_entries[j].number = j /\ bib_entries[j].entry_type = "numeric"

\* the line is 'LastName, FirstName (Year). ...' or 'LastName, First Middle
\* (Year). ...' of one author: a given name, not an initial, after the comma
FullNameEntry(r) ==
    /\ Len(r.authors) = 1 /\ r.number = NoNumber
    /\ StartsAt(r.line, 1, r.authors[1] \o ", ")
    /\ Char(r.line, Len(r.authors[1]) + 3) \in UPPER
    /\ Char(r.line, Len(r.authors[1]) + 4) \in LOWER
    /\ contains(r.line, " (" \o r.year \o "). ")

\* C17: the entry of a single-author reference written 'LastName, FirstName
\* (Year). ...' or 'LastName, First Middle (Year). ...' has authors
\* [LastName], no given name among them, and year Year.
C17_LastNamesOnly ==
    pc \notin {"start", "citations"} =>
        \A d \in TheDocuments :
            (Len(d.references) = 1 /\ FullNameEntry(d.references[1])) =>
                /\ Len(bib_entries) = 1
                /\ bib_entries[1].authors = d.references[1].authors
                /\ bib_entries[1].year = d.references[1].year

\* the sentence cites one surname and a year in parentheses: '(Name, Year)' or
\* '(Name Year)', with or without an introducing word before the name
SingleSurname(sentence) ==
    /\ Len(sentence.authors) = 1
    /\ \/ contains(sentence.prose, sentence.authors[1] \o ", " \o sentence.year \o ")")
       \/ contains(sentence.prose, sentence.authors[1] \o " " \o sentence.year \o ")")
\* the position (0-based) of the parenthesis of sentence k in the text of d
ParenthesisOf(d, k) ==
    Len(Prose(SubSeq(d.body, 1, k - 1))) + find(d.body[k].prose, "(") - 1

\* C18: every citation extracted from a single-surname parenthetical
\* '(Name, Year)' or '(Name Year)' has authors [Name], the surname as written,
\* and year Year; an introducing word before the name is dropped, no part of
\* the name is.
C18_SurnameAsWritten ==
    pc # "start" =>
        \A d \in TheDocuments :
            \A k \in DOMAIN d.body :
                SingleSurname(d.body[k]) =>
                    \A i \in CitationRefs :
                        citations[i].position = ParenthesisOf(d, k) =>
                            /\ citations[i].authors = d.body[k].authors
                            /\ citations[i].year = d.body[k].year

(***************************************************************************)
(* Properties of DocumentReader.read_file (SpecReader)                     *)
(***************************************************************************)
\* the paths of the model by the format their names announce
PlainTextPaths == {"paper.txt", "PAPER.MD", "notes/paper.tex"}
UnsupportedPaths == {"paper.xyz", "paper", ".txt", "v1.2/paper"}
Called == pc # "start"

\* C19: read_file raises FileNotFoundError when nothing stands at the path,
\* raises ValueError when the path exists and its suffix is not a supported
\* one, and returns the content of a file with a plain-text suffix.
C19_ReadFileOutcomes ==
    Called =>
        /\ files[file_path].kind = "absent" => pc = "FileNotFoundError"
        /\ (files[file_path].kind # "absent" /\ file_path \in UnsupportedPaths) =>
              pc = "ValueError"
        /\ (files[file_path].kind = "file" /\ file_path \in PlainTextPaths) =>
              (pc = "returned" /\ text = files[file_path].content)

(***************************************************************************)
(* Properties of the stages of CitationParser.parse (SpecParse)            *)
(***************************************************************************)
\* the citations a step appends, as indices into citations'
Emitted == (Len(citations) + 1)..Len(citations')
\* pos lies in an interval [start, end) of spans
Claimed(spans, pos) == \E p \in spans : p[1] <= pos /\ pos < p[2]

\* C20: a stage keeps what the earlier stages left; a citation emitted by
\* stages 2-5 has a position that lies in no interval claimed before the stage;
\* the match of every emitted citation adds its interval, which starts at the
\* citation's position; and no citation of a stage has the position of a
\* citation of an earlier stage.
C20_ClaimedSpanExclusion ==
    [][ /\ SubSeq(citations', 1, Len(citations)) = citations
        /\ parsed_positions \subseteq parsed_positions'
        /\ \A k \in Emitted :
              /\ pc # "start" => ~Claimed(parsed_positions, citations'[k].position)
              /\ \E p \in parsed_positions' :
                    p[1] = citations'[k].position /\ p[1] < p[2]
              /\ \A i \in DOMAIN citations :
                    citations[i].position # citations'[k].position ]_vars

\* parse has returned; the numeric pattern matched inside claimed parentheses
\* and gave no citation, and citations of stage 1, 4 and 5 stand side by side
C20_Witness ==
    /\ pc = "numeric"
    /\ LET Discarded(matches) ==
               \E k \in DOMAIN matches :
                  /\ \E p \in parsed_positions :
                        p[1] < start(matches[k]) /\ start(matches[k]) < p[2]
                  /\ \A i \in DOMAIN citations : citations[i].position # start(matches[k])
       IN  Discarded(re_finditer(NUMERIC_PATTERN, text))
    /\ \E i, j, k \in DOMAIN citations :
          /\ citations[i].citation_type = "author-year"
          /\ citations[j].citation_type = "mla"
          /\ citations[k].citation_type = "numeric"

\* the notes headers and the major headings, as the texts of SpecParse write them
NotesHeaders == {"Endnotes:", "Footnotes:", "Notes:"}
MajorHeadings == {"\nReferences:\n"}
\* pos lies after the first header h of the text and before the first major
\* heading that follows that header (0-based offsets)
InNotes(t, pos) ==
    \E h \in NotesHeaders :
        /\ contains(t, h)
        /\ LET from == find(t, h) - 1 + Len(h)
               Ends == {e \in from..Len(t) :
                           \/ e = Len(t)
                           \/ \E g \in MajorHeadings : StartsAt(t, e + 1, g)}
           IN  from <= pos /\ \A e \in Ends : pos < e

\* C21: every citation the bare stage emits has its position inside a notes
\* section, and the bare stage emits nothing for a text without a notes header.
C21_BareOnlyInNotes ==
    [][ pc = "narrative" =>
           /\ \A k \in Emitted : InNotes(text, citations'[k].position)
           /\ (\A h \in NotesHeaders : ~contains(text, h)) => Emitted = {} ]_vars

\* the bare stage has run on a text with a notes section and a heading after
\* it: a bare citation stands inside the section, and 'Kim 2021' after the
\* heading gave none
C21_Witness ==
    /\ pc = "bare"
    /\ \E i \in DOMAIN citations :
          /\ ~contains(citations[i].raw_text, "(")
          /\ InNotes(text, citations[i].position)
    /\ \E g \in MajorHeadings :
          /\ contains(text, g)
          /\ StartsAt(text, find(text, g) + Len(g), "Kim 2021")
          /\ \A i \in DOMAIN citations : citations[i].position # find(text, g) - 1 + Len(g)

\* parentheses of the texts of SpecParse that hold one candidate, each with
\* the leading word of its author string in lower case
Candidates ==
    { [paren |-> "(Kim 2021)", word |-> "kim"],
      [paren |-> "(Mayer, 2020)", word |-> "mayer"],
      [paren |-> "(November 2002)", word |-> "november"],
      [paren |-> "(TABLE 2020)", word |-> "table"] }

\* C22: after the parenthetical stage a candidate has given a citation exactly
\* when its leading word is no word of the blocklist.
C22_BlocklistExactly ==
    pc = "parenthetical" =>
        \A c \in Candidates :
            \A i \in 1..Len(text) :
                StartsAt(text, i, c.paren) =>
                    ((\E k \in DOMAIN citations : citations[k].position = i - 1)
                        <=> c.word \notin Range(non_author_words))

\* C26: every citation of the list is numeric (number set, no authors, no
\* year, no page) or author-based (no number, at least one author; a year for
\* author-year, a page and no year for mla).
C26_NumericOrAuthorBased ==
    \A i \in DOMAIN citations :
        \/ /\ citations[i].citation_type = "numeric"
           /\ citations[i].number # NoNumber
           /\ citations[i].authors = <<>>
           /\ citations[i].year = None
           /\ citations[i].page = None
        \/ /\ citations[i].citation_type = "author-year"
           /\ citations[i].number = NoNumber
           /\ citations[i].authors # <<>>
           /\ citations[i].year # None
        \/ /\ citations[i].citation_type = "mla"
           /\ citations[i].number = NoNumber
           /\ citations[i].authors # <<>>
           /\ citations[i].page # None
           /\ citations[i].year = None

(***************************************************************************)
(* Properties of BibliographyParser.parse (SpecSections)                    *)
(***************************************************************************)
\* the text, line by line: the section between the earliest line that is a
\* default header and the next line that is a trailing-section header
TrailingHeaders ==
    <<"acknowledgment", "acknowledgments", "appendix", "supplementary material",
      "supplementary materials", "notes", "endnotes", "footnotes">>
SectionByLines ==
    LET lines == SplitChar(text, "\n")
        IsOneOf(i, headers) == \E k \in DOMAIN headers : IsHeaderLine(lines[i], headers[k])
        Least(S) == CHOOSE i \in S : \A j \in S : i <= j
        first == Least({i \in DOMAIN lines : IsOneOf(i, DefaultBibHeaders)})
        stop == Least({i \in DOMAIN lines : i > first /\ IsOneOf(i, TrailingHeaders)}
                          \cup {Len(lines) + 1})
    IN  strip(join("\n", SubSeq(lines, first + 1, stop - 1)))

\* C23: with no custom header, the section BibliographyParser.parse returns is
\* the text after the earliest default header line of the document, up to the
\* next trailing-section header line or the end of the document.
C23_EarliestHeaderLine ==
    (pc \notin {"start", "citations"} /\ bib_section_name = None /\ HasHeaderLine) =>
        bib_text = SectionByLines

\* the places of the section at or after offset from at which the text of
\* entry j begins
EntryStarts(j, from) ==
    LET raw == bib_entries[j].raw_text
        head == SubSeq(raw, 1, IF Len(raw) < 12 THEN Len(raw) ELSE 12)
    IN  {i \in from..Len(bib_text) : StartsAt(bib_text, i, head)}

\* C24: the entries BibliographyParser.parse returns are in the order in which
\* they begin in the section: going through the list, each entry begins at or
\* after the place where the entry before it begins.
C24_DocumentOrder ==
    pc \notin {"start", "citations"} =>
        LET RECURSIVE InOrder(_, _)
            InOrder(j, from) ==
                \/ j > Len(bib_entries)
                \/ /\ EntryStarts(j, from) # {}
                   /\ InOrder(j + 1, CHOOSE i \in EntryStarts(j, from) :
                                         \A k \in EntryStarts(j, from) : i <= k)
        IN  InOrder(1, 1)

\* the non-blank lines of the section, stripped, in order
SectionLines ==
    LET Stripped(lines) == [k \in DOMAIN lines |-> strip(lines[k])]
    IN  SelectSeq(Stripped(SplitChar(bib_text, "\n")), LAMBDA l : l # "")
\* 'Capitalized-Word, Capital...': a capital, one or more name characters, a
\* comma, one or more blanks, a capital
IsBoundary(line) ==
    \E c \in 3..Len(line), n \in 1..Len(line) :
        /\ Char(line, 1) \in UPPER
        /\ \A i \in 2..(c - 1) : Char(line, i) \in LOWER \cup UPPER \cup {"'", "-"}
        /\ Char(line, c) = ","
        /\ n > c + 1 /\ \A i \in (c + 1)..(n - 1) : Char(line, i) \in SPACE
        /\ Char(line, n) \in UPPER
\* the lines at which a candidate starts: the first line and every boundary line
CandidateStarts(lines) == {k \in DOMAIN lines : k = 1 \/ IsBoundary(lines[k])}
\* the candidate that starts at line k: the lines up to the next start
Candidate(lines, starts, k) ==
    LET Later == {j \in starts : j > k} \cup {Len(lines) + 1}
        next == CHOOSE j \in Later : \A i \in Later : j <= i
    IN  join(" ", SubSeq(lines, k, next - 1))
\* the entries of the list that _parse_author_year_entries made
AuthorYearEntries == SelectSeq(bib_entries, LAMBDA e : e.number = NoNumber)

\* C25: the author-year entries are, in order, the candidates from which an
\* author is extracted, where every boundary line starts a candidate and every
\* other non-blank line continues the one before it; a section that begins
\* with a boundary line has as many candidates as boundary lines.
C25_Segmentation ==
    pc \notin {"start", "citations"} =>
        LET lines == SectionLines
            starts == CandidateStarts(lines)
            candidates == [k \in starts |-> Candidate(lines, starts, k)]
            kept == {k \in starts : _extract_author_year(candidates[k]).authors # <<>>}
            entries == AuthorYearEntries
        IN  /\ Len(entries) = Cardinality(kept)
            /\ \A k \in kept :
                  entries[Cardinality({j \in kept : j <= k})].raw_text = candidates[k]
            /\ (lines # <<>> /\ IsBoundary(lines[1])) =>
                  Cardinality(starts) =
                      Cardinality({k \in DOMAIN lines : IsBoundary(lines[k])})

\* a finished parse of a section with two boundary lines, two continuation
\* lines, one of them indented, and a blank line: two entries
C25_Witness ==
    /\ pc = "done"
    /\ Len(SectionLines) = 4
    /\ Cardinality(CandidateStarts(SectionLines)) = 2
    /\ contains(bib_text, "\n  Journal")
    /\ contains(text, "\nAppendix\n")
    /\ Len(bib_entries) = 2
    /\ bib_entries[1].raw_text = "Smith, J. (2020). A Title. Journal of Things."
    /\ bib_entries[2].raw_text = "Jones, M. (2021). Other. Press of the City."

(***************************************************************************)
(* Further properties of the matcher (SpecMatcher)                         *)
(***************************************************************************)
\* the year mismatches that name entry j and a citation with the key of citation i
MismatchesFor(i, j) ==
    {m \in DOMAIN year_mismatches :
        /\ year_mismatches[m].bib_entry = j
        /\ citation_key(citations[year_mismatches[m].citation])
              = citation_key(citations[i])}

\* C27: no (citation, entry) pair stands twice in year_mismatches, and for an
\* unmatched citation with a year, however often it occurs, there is exactly
\* one YearMismatch for each entry that has another year and whose authors
\* match.
C27_OneMismatchPerEntry ==
    pc = "done" =>
        /\ \A a, b \in DOMAIN year_mismatches :
              a # b => year_mismatches[a] # year_mismatches[b]
        /\ \A i \in CitationRefs, j \in EntryRefs :
              (/\ Unmatched(i)
               /\ Truthy(citations[i].year) /\ Truthy(bib_entries[j].year)
               /\ citations[i].year # bib_entries[j].year
               /\ authors_match_bib(citations[i], bib_entries[j]))
                  => Cardinality(MismatchesFor(i, j)) = 1

\* the same unmatched citation twice, and an entry with its authors and
\* another year: one year mismatch
C27_Witness ==
    /\ pc = "done"
    /\ Len(citations) >= 2 /\ citations[1] = citations[2]
    /\ Unmatched(1)
    /\ Len(year_mismatches) = 1
    /\ year_mismatches[1].citation = 1

\* two citations get the same dedup key: numeric ones with the same number,
\* others with the same year and the same authors in any order
SameKey(c, d) ==
    IF c.citation_type = "numeric" \/ d.citation_type = "numeric"
    THEN c.citation_type = d.citation_type /\ c.number = d.number
    ELSE /\ c.year = d.year
         /\ Len(c.authors) = Len(d.authors)
         /\ \A a \in Range(c.authors) \cup Range(d.authors) :
               Cardinality({k \in DOMAIN c.authors : c.authors[k] = a})
                   = Cardinality({k \in DOMAIN d.authors : d.authors[k] = a})
\* the references of refs name records of 1..n in ascending order, none twice
Subsequence(refs, n) ==
    /\ \A k \in DOMAIN refs : refs[k] \in 1..n
    /\ \A k \in DOMAIN refs : k > 1 => refs[k - 1] < refs[k]

\* C29: missing_bib_entries names citations of the list in their order, and
\* they are exactly the unmatched citations that no earlier unmatched citation
\* shares its dedup key with; an earlier matched citation with the same key
\* keeps nothing out.  uncited_references names entries of the list in their
\* order.
C29_FirstUnmatchedPerKey ==
    pc = "done" =>
        /\ Subsequence(missing_bib_entries, Len(citations))
        /\ MissingSet = {i \in CitationRefs :
                            /\ Unmatched(i)
                            /\ \A h \in 1..(i - 1) :
                                  Unmatched(h) => ~SameKey(citations[h], citations[i])}
        /\ Subsequence(uncited_references, Len(bib_entries))
\* the first citation is matched, the second has its key and is reported
\* missing; the list holds two entries
C29_Witness ==
    /\ pc = "done"
    /\ Len(citations) = 2 /\ SameKey(citations[1], citations[2])
    /\ ~Unmatched(1) /\ missing_bib_entries = <<2>>
    /\ \E i \in CitationRefs : Len(citations[i].authors) = 2
    /\ Len(bib_entries) = 2

\* the pairs a result has to hold: a missing citation and an entry, both with
\* a year, the years different, the authors the same
YearPairs ==
    {p \in MissingSet \X EntryRefs :
        /\ Truthy(citations[p[1]].year) /\ Truthy(bib_entries[p[2]].year)
        /\ citations[p[1]].year # bib_entries[p[2]].year
        /\ authors_match_bib(citations[p[1]], bib_entries[p[2]])}
\* lists of citations that keep the records missing_bib_entries names and
\* hold any record of the list elsewhere
OtherCitations ==
    {A \in [CitationRefs -> Range(citations)] : \A i \in MissingSet : A[i] = citations[i]}

\* C30: year_mismatches holds the pairs of YearPairs, each once, in the order
\* of missing_bib_entries and then of bib_entries, and _find_year_mismatches
\* returns the same list for every uncited_references argument and for every
\* all_citations argument that leaves the missing citations what they are.
C30_MissingAndEntriesOnly ==
    pc = "done" =>
        /\ {<<year_mismatches[k].citation, year_mismatches[k].bib_entry>> :
                k \in DOMAIN year_mismatches} = YearPairs
        /\ \A k \in DOMAIN year_mismatches : k > 1 =>
              LET a == year_mismatches[k - 1]
                  b == year_mismatches[k]
              IN  \/ a.citation < b.citation
                  \/ a.citation = b.citation /\ a.bib_entry < b.bib_entry
        /\ \A U \in SeqsUpTo(EntryRefs, Len(bib_entries)) :
              _find_year_mismatches(missing_bib_entries, U, citations, bib_entries)
                  = year_mismatches
        /\ \A A \in OtherCitations :
              _find_year_mismatches(missing_bib_entries, uncited_references, A, bib_entries)
                  = year_mismatches
\* the entry of a YearMismatch is cited by another citation that has the
\* entry's year
C30_Witness ==
    /\ pc = "done"
    /\ \E k \in DOMAIN year_mismatches :
          LET j == year_mismatches[k].bib_entry
          IN  /\ j \notin UncitedSet
              /\ \E i \in CitationRefs :
                    /\ i # year_mismatches[k].citation
                    /\ matches_bib(citations[i], bib_entries[j])
                    /\ citations[i].year = bib_entries[j].year

(***************************************************************************)
(* Further properties of CitationParser.parse (SpecParse)                  *)
(***************************************************************************)
\* the largest number written in a bracket group of the texts
MaxNumber == 9
\* the bracket groups written without blanks: <<a, b>> with '[' at a and ']'
\* at b - 1, and between them numbers separated by single '-' or ','
Groups(t) ==
    {g \in (0..(Len(t) - 1)) \X (1..Len(t)) :
        /\ g[1] + 2 < g[2]
        /\ Char(t, g[1] + 1) = "[" /\ Char(t, g[2]) = "]"
        /\ Char(t, g[1] + 2) \in DIGIT /\ Char(t, g[2] - 1) \in DIGIT
        /\ \A k \in (g[1] + 2)..(g[2] - 1) :
              /\ Char(t, k) \in DIGIT \cup {"-", ","}
              /\ Char(t, k) \in {"-", ","} => Char(t, k + 1) \in DIGIT}
Inner(t, g) == SubSeq(t, g[1] + 2, g[2] - 1)
Occurrences(s, c) == Cardinality({k \in 1..Len(s) : Char(s, k) = c})
\* the numbers a group stands for: those of a comma list, those of one range
\* a-b with a <= b, none for any other group
Stands(inner) ==
    IF Occurrences(inner, "-") = 0
    THEN {n \in 0..MaxNumber : contains("," \o inner \o ",", "," \o ToString(n) \o ",")}
    ELSE {n \in 0..MaxNumber :
            \E a, b \in 0..MaxNumber :
                inner = ToString(a) \o "-" \o ToString(b) /\ a <= n /\ n <= b}
Malformed(inner) == Stands(inner) = {}
\* the 20 characters before pos hold one of the words that mark a table or a
\* figure
AfterKeyword(t, pos) ==
    \E w \in {"table", "figure", "fig", "appendix", "section", "chapter"} :
        contains(lower(SubSeq(t, IF pos > 20 THEN pos - 19 ELSE 1, pos)), w)

====
